---- MODULE Spec2Model ----
(***************************************************************************)
(* Doctor availability verification of the call-center pipeline:           *)
(* DoctorsSchedule (google_sheets.py) and                                  *)
(* CallCorrector._verify_doctor_availability (llm_corrector.py).           *)
(*                                                                         *)
(* Python strings are sequences of one-character strings, so that          *)
(* lower(), strip(), split(':') and the substring test `a in b` are        *)
(* computed and not assumed.  Cyrillic words are transliterated.           *)
(* A dict is a function whose DOMAIN is the set of keys present.           *)
(***************************************************************************)
EXTENDS Integers, Sequences, FiniteSets, TLC

VARIABLES
    store,             \* the DoctorsSchedule object and the sheets behind it
    doctors_schedule,  \* CallCorrector.doctors_schedule is not None
    llm,               \* CallCorrector.llm is not None
    pc,                \* position of the current _verify_doctor_availability call
    appointment_info,  \* the argument of the current call
    doctors_context,   \* local doctors_context of the current call
    result,            \* local result of the current call (the returned dict)
    clarification,     \* local clarification: what _call_llm returned
    outcome,           \* "none" | "returned" | "raised"
    io,                \* external reads/calls made by the current call, in order
    call,              \* a DoctorsSchedule method called on its own, with its arguments
    ret,               \* what that method returned
    threads,           \* callers of one corrector: the locals of each one's call
    cache,             \* CallCorrector.cache
    corrections        \* the calls of _correct_transcription made so far

vars == <<store, doctors_schedule, llm, pc, appointment_info, doctors_context,
          result, clarification, outcome, io, call, ret, threads, cache,
          corrections>>

-----------------------------------------------------------------------------
(* Bounds of the model *)

MaxRoster == 2
MaxCols == 2

\* longest roster get_context_for_rag is called with on its own
MaxRagRoster == 14

\* number of calls of _correct_transcription on one corrector
MaxCorrections == 3

-----------------------------------------------------------------------------
(* Python values *)

\* None where a dict is expected
NoneVal == [none |-> TRUE]

\* None (JSON null) where a str is expected: a token that is no character
NoneStr == << "None" >>

\* None where an int is expected (row and column numbers start at 1)
NoneInt == 0

\* {}  (also the empty string and the empty list: all are the empty function)
EmptyDict == <<>>

Get(d, k, default) == IF k \in DOMAIN d THEN d[k] ELSE default

\* truth value of a str, list or dict (None is passed as the empty value where
\* the code only tests truthiness)
Truthy(v) == DOMAIN v # {}

Min(a, b) == IF a < b THEN a ELSE b

Abs(x) == IF x < 0 THEN -x ELSE x

-----------------------------------------------------------------------------
(* str *)

LowerPairs ==
    { <<"I", "i">>, <<"V", "v">>, <<"A", "a">>, <<"P", "p">>, <<"E", "e">>,
      <<"T", "t">>, <<"K", "k">>, <<"F", "f">>, <<"R", "r">>, <<"B", "b">>,
      <<"U", "u">>, <<"S", "s">>, <<"Y", "y">>, <<"X", "x">>, <<"N", "n">>,
      <<"O", "o">>, <<"H", "h">>, <<"Z", "z">>, <<"D", "d">>, <<"L", "l">> }

LowerChar(c) ==
    IF \E p \in LowerPairs : p[1] = c
    THEN (CHOOSE p \in LowerPairs : p[1] = c)[2]
    ELSE c

lower(s) == [i \in 1..Len(s) |-> LowerChar(s[i])]

IsSpace(c) == c = " "

RECURSIVE lstrip(_)
lstrip(s) == IF s # <<>> /\ IsSpace(Head(s)) THEN lstrip(Tail(s)) ELSE s

RECURSIVE rstrip(_)
rstrip(s) ==
    IF s # <<>> /\ IsSpace(s[Len(s)]) THEN rstrip(SubSeq(s, 1, Len(s) - 1)) ELSE s

strip(s) == rstrip(lstrip(s))

\* Python `sub in s`
Contains(sub, s) ==
    \E i \in 0..(Len(s) - Len(sub)) : SubSeq(s, i + 1, i + Len(sub)) = sub

\* s.split(':')[0]
BeforeColon(s) ==
    IF \E i \in 1..Len(s) : s[i] = ":"
    THEN SubSeq(s, 1, (CHOOSE i \in 1..Len(s) :
                          s[i] = ":" /\ \A j \in 1..(i - 1) : s[j] # ":") - 1)
    ELSE s

Digits == <<"0", "1", "2", "3", "4", "5", "6", "7", "8", "9">>

IsDigit(c) == \E d \in 1..Len(Digits) : Digits[d] = c

DigitVal(c) == (CHOOSE d \in 1..Len(Digits) : Digits[d] = c) - 1

\* what int(s) reads after dropping the surrounding whitespace and one sign
IntBody(s) ==
    LET t == strip(s)
    IN  IF t # <<>> /\ (t[1] = "+" \/ t[1] = "-") THEN Tail(t) ELSE t

\* int(s) succeeds: decimal digits, single underscores between two digits
\* allowed, after an optional sign, whitespace around; anything else is a
\* ValueError
IsInt(s) ==
    LET b == IntBody(s)
    IN  /\ b # <<>>
        /\ \A i \in 1..Len(b) :
               \/ IsDigit(b[i])
               \/ /\ b[i] = "_" /\ 1 < i /\ i < Len(b)
                  /\ IsDigit(b[i - 1]) /\ IsDigit(b[i + 1])

\* the value of the digits of b, underscores skipped
RECURSIVE DecimalVal(_)
DecimalVal(b) ==
    IF b = <<>> THEN 0
    ELSE IF b[Len(b)] = "_" THEN DecimalVal(SubSeq(b, 1, Len(b) - 1))
    ELSE 10 * DecimalVal(SubSeq(b, 1, Len(b) - 1)) + DigitVal(b[Len(b)])

\* int(s), for s with IsInt(s)
IntVal(s) ==
    LET t == strip(s)
    IN  IF t # <<>> /\ t[1] = "-" THEN 0 - DecimalVal(IntBody(s))
        ELSE DecimalVal(IntBody(s))

-----------------------------------------------------------------------------
(* float *)

\* A Python float is an IEEE 754 double.  A non-negative double below 2 is held
\* exactly as the natural number hi * LimbBase + lo of units 2^-57 (doubles
\* from 1/16 up are multiples of that unit; smaller ones other than 0 are
\* outside the colors the model uses).
LimbBase == 536870912

\* 2^53 units 2^-57 = 1/16: below it a value has at most 53 significant bits
ExactBelow == 16777216

\* 10^8 = 2^8 * 5^8: a literal with eight decimals is dec / (2^8 * FiveTo8)
FiveTo8 == 390625

\* the long division takes 12 bits at a time
DigitBase == 4096

FloatZero == [hi |-> 0, lo |-> 0]

\* round to nearest, ties to even, to 53 significant bits; sticky says that
\* the exact value lies above v
RoundToDouble(v, sticky) ==
    LET k == IF v.hi < ExactBelow THEN 0
             ELSE IF v.hi < 2 * ExactBelow THEN 1
             ELSE IF v.hi < 4 * ExactBelow THEN 2
             ELSE IF v.hi < 8 * ExactBelow THEN 3
             ELSE IF v.hi < 16 * ExactBelow THEN 4
             ELSE 5
    IN  IF k = 0 THEN v
        ELSE LET unit == << 2, 4, 8, 16, 32 >>[k]
                 half == unit \div 2
                 rem == v.lo % unit
                 kept == v.lo - rem
                 odd == (kept \div unit) % 2 = 1
                 up == rem > half \/ (rem = half /\ (sticky \/ odd))
                 lo2 == kept + (IF up THEN unit ELSE 0)
             IN  [hi |-> v.hi + (lo2 \div LimbBase), lo |-> lo2 % LimbBase]

\* the double nearest to the decimal literal dec / 10^8 (0 <= dec < 2 * 10^8):
\* floor(dec * 2^49 / 5^8) by long division, then rounded
Float(dec) ==
    LET q0 == dec \div FiveTo8
        r0 == dec % FiveTo8
        d1 == (r0 * DigitBase) \div FiveTo8
        r1 == (r0 * DigitBase) % FiveTo8
        d2 == (r1 * DigitBase) \div FiveTo8
        r2 == (r1 * DigitBase) % FiveTo8
        d3 == (r2 * DigitBase) \div FiveTo8
        r3 == (r2 * DigitBase) % FiveTo8
        d4 == (r3 * DigitBase) \div FiveTo8
        r4 == (r3 * DigitBase) % FiveTo8
        d5 == (r4 * 2) \div FiveTo8
        r5 == (r4 * 2) % FiveTo8
    IN  RoundToDouble(
            [hi |-> (q0 * 256 + d1 \div 16) * DigitBase + (d1 % 16) * 256 + d2 \div 16,
             lo |-> (((d2 % 16) * DigitBase + d3) * DigitBase + d4) * 2 + d5],
            r5 # 0)

\* a < b
FloatLess(a, b) == a.hi < b.hi \/ (a.hi = b.hi /\ a.lo < b.lo)

\* abs(a - b): the exact difference, rounded to a double
FloatAbsSub(a, b) ==
    LET big == IF FloatLess(a, b) THEN b ELSE a
        small == IF FloatLess(a, b) THEN a ELSE b
        borrow == IF big.lo < small.lo THEN 1 ELSE 0
    IN  RoundToDouble([hi |-> big.hi - small.hi - borrow,
                       lo |-> big.lo - small.lo + borrow * LimbBase], FALSE)

-----------------------------------------------------------------------------
(* DoctorsSchedule: class constants *)

\* the literals of lines 34-36, each channel scaled by 10^8
GREEN_RGB == [red |-> 85098040, green |-> 91764706, blue |-> 82745100]
RED_RGB == [red |-> 95686275, green |-> 80000000, blue |-> 80000000]
BLUE_RGB == [red |-> 80000000, green |-> 87843137, blue |-> 95686275]

\* the dict of Python floats a dict of decimal literals denotes
PyColor(rgb) == [ch \in DOMAIN rgb |-> Float(rgb[ch])]

COLOR_GREEN == PyColor(GREEN_RGB)
COLOR_RED == PyColor(RED_RGB)
COLOR_BLUE == PyColor(BLUE_RGB)

START_HOUR == 9
END_HOUR == 21

\* the literal 0.1 of color_similar's threshold, scaled like the channels
THRESHOLD == 10000000

\* the float 0.1
threshold == Float(THRESHOLD)

\* doctors[:10] in get_context_for_rag
RAG_LIMIT == 10

\* an f-string message: a sequence of rendered templates
Msg(tpl, args) == << [tpl |-> tpl, args |-> args] >>

-----------------------------------------------------------------------------
(* DoctorsSchedule: reads of the sheets.  A store s has                     *)
(*   doctors_worksheet, schedule_worksheet : the attribute is not None      *)
(*   roster        : the rows of sheet "Vrachi" as {name, specialty}        *)
(*   header        : row 1 of sheet "Raspisanie"                            *)
(*   cells         : <<row, col>> -> [color, value]                         *)
(*   roster_raises, header_raises, cell_raises, color_raises :              *)
(*                   the corresponding API read raises                      *)

\* the external reads get_all_doctors makes
get_all_doctors_io(s) == IF s.doctors_worksheet THEN << "roster" >> ELSE << >>

get_all_doctors(s) ==
    IF ~s.doctors_worksheet THEN << >>
    ELSE IF s.roster_raises THEN << >>
    ELSE SelectSeq(s.roster, LAMBDA doctor : Truthy(doctor.name))

\* faulty variant: only the query inside the name counts
find_doctor_by_name_OneWay(s, doctor_name) ==
    LET doctors == get_all_doctors(s)
        doctor_name_lower == strip(lower(doctor_name))
    IN  SelectSeq(doctors, LAMBDA doctor :
            Contains(doctor_name_lower, lower(doctor.name)))

find_doctor_by_name(s, doctor_name) ==
    LET doctors == get_all_doctors(s)
        doctor_name_lower == strip(lower(doctor_name))
    IN  SelectSeq(doctors, LAMBDA doctor :
            \/ Contains(doctor_name_lower, lower(doctor.name))
            \/ Contains(lower(doctor.name), doctor_name_lower))

find_doctors_by_specialty(s, specialty) ==
    LET doctors == get_all_doctors(s)
        specialty_lower == strip(lower(specialty))
    IN  SelectSeq(doctors, LAMBDA doctor :
            \/ Contains(specialty_lower, lower(doctor.specialty))
            \/ Contains(lower(doctor.specialty), specialty_lower))

color_similar(color1, color2) ==
    /\ FloatLess(FloatAbsSub(Get(color1, "red", FloatZero),
                             Get(color2, "red", FloatZero)), threshold)
    /\ FloatLess(FloatAbsSub(Get(color1, "green", FloatZero),
                             Get(color2, "green", FloatZero)), threshold)
    /\ FloatLess(FloatAbsSub(Get(color1, "blue", FloatZero),
                             Get(color2, "blue", FloatZero)), threshold)

\* faulty variant: the busy reference is tried before the free one
_get_cell_color_status_BusyFirst(cell_color) ==
    IF ~Truthy(cell_color) THEN "unknown"
    ELSE IF color_similar(cell_color, COLOR_RED) THEN "busy"
    ELSE IF color_similar(cell_color, COLOR_GREEN) THEN "free"
    ELSE IF color_similar(cell_color, COLOR_BLUE) THEN "holiday"
    ELSE "unknown"

_get_cell_color_status(cell_color) ==
    IF ~Truthy(cell_color) THEN "unknown"
    ELSE IF color_similar(cell_color, COLOR_GREEN) THEN "free"
    ELSE IF color_similar(cell_color, COLOR_RED) THEN "busy"
    ELSE IF color_similar(cell_color, COLOR_BLUE) THEN "holiday"
    ELSE "unknown"

\* faulty variant: the header row is not skipped
_get_time_row_index_OffByOne(time_slot) ==
    LET hour_text == BeforeColon(time_slot)
    IN  IF ~IsInt(hour_text) THEN NoneInt
        ELSE LET hour == IntVal(hour_text)
             IN  IF hour < START_HOUR \/ hour > END_HOUR THEN NoneInt
                 ELSE (hour - START_HOUR) + 1

_get_time_row_index(time_slot) ==
    LET hour_text == BeforeColon(time_slot)
    IN  IF ~IsInt(hour_text) THEN NoneInt
        ELSE LET hour == IntVal(hour_text)
             IN  IF hour < START_HOUR \/ hour > END_HOUR THEN NoneInt
                 ELSE (hour - START_HOUR) + 2

\* the columns (from column 2) whose header contains the name
HeaderHits(s, doctor_name) ==
    { col_index \in 2..Len(s.header) :
        /\ Truthy(s.header[col_index])
        /\ Contains(strip(lower(doctor_name)), lower(s.header[col_index])) }

SetMin(S) == CHOOSE x \in S : \A y \in S : x <= y

\* the external reads _get_doctor_column_index makes
_get_doctor_column_index_io(s, doctor_name) ==
    IF ~s.schedule_worksheet THEN << >>
    ELSE IF s.header_raises THEN << "header" >>
    ELSE IF HeaderHits(s, doctor_name) = {} THEN << "header" >>
    ELSE << "header" >> \o get_all_doctors_io(s)

_get_doctor_column_index(s, doctor_name) ==
    IF ~s.schedule_worksheet THEN NoneInt
    ELSE IF s.header_raises THEN NoneInt
    ELSE IF HeaderHits(s, doctor_name) = {} THEN NoneInt
    ELSE LET col_index == SetMin(HeaderHits(s, doctor_name))
             header == s.header[col_index]
             found_doctors == find_doctor_by_name(s, doctor_name)
         \* lines 269-277: the first hit is returned whether or not its header
         \* corresponds to a doctor of the roster
         IN  IF \E i \in 1..Len(found_doctors) :
                    \/ Contains(lower(found_doctors[i].name), lower(header))
                    \/ Contains(lower(header), lower(found_doctors[i].name))
             THEN col_index
             ELSE col_index

-----------------------------------------------------------------------------
(* DoctorsSchedule.check_doctor_availability *)

\* the words of the text fallback (lines 405-409), transliterated
W_svobodno == << "s", "v", "o", "b", "o", "d", "n", "o" >>
W_free == << "f", "r", "e", "e" >>
W_zanyato == << "z", "a", "n", "y", "a", "t", "o" >>
W_busy == << "b", "u", "s", "y" >>
W_zanyat == << "z", "a", "n", "y", "a", "t" >>
W_vyhodnoy == << "v", "y", "h", "o", "d", "n", "o", "y" >>
W_holiday == << "h", "o", "l", "i", "d", "a", "y" >>
W_vyh == << "v", "y", "h" >>

\* faulty variant: the text is compared as written
TextStatus_CaseSensitive(cell_value) ==
    IF ~Truthy(cell_value) \/ cell_value \in {W_svobodno, W_free, << >>}
    THEN "free"
    ELSE IF cell_value \in {W_zanyato, W_busy, W_zanyat} THEN "busy"
    ELSE IF cell_value \in {W_vyhodnoy, W_holiday, W_vyh} THEN "holiday"
    ELSE "unknown"

\* status from the cell value when no color was obtained
TextStatus(cell_value) ==
    IF ~Truthy(cell_value) \/ lower(cell_value) \in {W_svobodno, W_free, << >>}
    THEN "free"
    ELSE IF lower(cell_value) \in {W_zanyato, W_busy, W_zanyat} THEN "busy"
    ELSE IF lower(cell_value) \in {W_vyhodnoy, W_holiday, W_vyh} THEN "holiday"
    ELSE "unknown"

\* cell_color after the inner try block (lines 359-398): None when the
\* request for the format raises, else the backgroundColor of the cell
FetchColor(s, row_index, col_index) ==
    IF s.color_raises THEN EmptyDict ELSE s.cells[<< row_index, col_index >>].color

\* worksheet.cell(row, col) raises: an API error, or a cell outside the sheet
CellRaises(s, row_index, col_index) ==
    s.cell_raises \/ << row_index, col_index >> \notin DOMAIN s.cells

\* faulty variant: a cell that holds a text is decoded from the text
CellStatus_TextFirst(s, row_index, col_index) ==
    LET cell_value == s.cells[<< row_index, col_index >>].value
        cell_color == FetchColor(s, row_index, col_index)
    IN  IF Truthy(cell_value) THEN TextStatus(cell_value)
        ELSE IF Truthy(cell_color) THEN _get_cell_color_status(cell_color)
        ELSE TextStatus(cell_value)

CellStatus(s, row_index, col_index) ==
    LET cell_value == s.cells[<< row_index, col_index >>].value
        cell_color == FetchColor(s, row_index, col_index)
    IN  IF Truthy(cell_color) THEN _get_cell_color_status(cell_color)
        ELSE TextStatus(cell_value)

\* time_display (lines 418-420)
TimeDisplay(time_slot) ==
    IF \E i \in 1..Len(time_slot) : time_slot[i] = ":"
    THEN time_slot
    ELSE time_slot \o << ":", "0", "0" >>

\* faulty variant: a failed read of the cell returns before doctor_info is set
CheckTime_ErrorWithoutInfo(s, r, doctor, time_slot) ==
    IF Truthy(time_slot) /\ s.schedule_worksheet
    THEN LET row_index == _get_time_row_index(time_slot)
             col_index == _get_doctor_column_index(s, doctor.name)
         IN  IF row_index = NoneInt
             THEN [r EXCEPT !.message = Msg("out_of_range", << time_slot >>),
                            !.doctor_info = doctor]
             ELSE IF col_index = NoneInt
             THEN [r EXCEPT !.message = Msg("not_in_schedule", << doctor.name >>),
                            !.doctor_info = doctor]
             ELSE IF CellRaises(s, row_index, col_index)
             THEN [r EXCEPT !.message = Msg("schedule_error", << doctor.name >>)]
             ELSE LET status == CellStatus(s, row_index, col_index)
                  IN  [r EXCEPT !.available_at_time = (status = "free"),
                                !.message = Msg(status, << doctor.name,
                                                           TimeDisplay(time_slot) >>),
                                !.doctor_info = doctor]
    ELSE [r EXCEPT !.available_at_time = TRUE,
                   !.message = Msg("found", << doctor.name, doctor.specialty >>),
                   !.doctor_info = doctor]

\* lines 338-436: the time check for the matched doctor; r is the result so far
CheckTime(s, r, doctor, time_slot) ==
    IF Truthy(time_slot) /\ s.schedule_worksheet
    THEN LET row_index == _get_time_row_index(time_slot)
             col_index == _get_doctor_column_index(s, doctor.name)
         IN  IF row_index = NoneInt
             THEN [r EXCEPT !.message = Msg("out_of_range", << time_slot >>),
                            !.doctor_info = doctor]
             ELSE IF col_index = NoneInt
             THEN [r EXCEPT !.message = Msg("not_in_schedule", << doctor.name >>),
                            !.doctor_info = doctor]
             ELSE IF CellRaises(s, row_index, col_index)
             THEN [r EXCEPT !.message = Msg("schedule_error", << doctor.name >>),
                            !.doctor_info = doctor]
             ELSE LET status == CellStatus(s, row_index, col_index)
                  IN  [r EXCEPT !.available_at_time = (status = "free"),
                                !.message = Msg(status, << doctor.name,
                                                           TimeDisplay(time_slot) >>),
                                !.doctor_info = doctor]
    ELSE [r EXCEPT !.available_at_time = TRUE,
                   !.message = Msg("found", << doctor.name, doctor.specialty >>),
                   !.doctor_info = doctor]

\* the external reads of lines 338-436
CheckTime_io(s, doctor, time_slot) ==
    IF Truthy(time_slot) /\ s.schedule_worksheet
    THEN _get_doctor_column_index_io(s, doctor.name)
         \o (IF \/ _get_time_row_index(time_slot) = NoneInt
                 \/ _get_doctor_column_index(s, doctor.name) = NoneInt
              THEN << >>
              ELSE IF CellRaises(s, _get_time_row_index(time_slot),
                                    _get_doctor_column_index(s, doctor.name))
              THEN << "cell" >>
              ELSE << "cell", "color" >>)
    ELSE << >>

\* faulty variant: doctor_exists is set before the roster lookup is examined
check_doctor_availability_ExistsEarly(s, doctor_name, specialty, time_slot) ==
    LET result0 == [doctor_exists |-> TRUE,
                    specialty_matches |-> TRUE,
                    available_at_time |-> FALSE,
                    doctor_info |-> NoneVal,
                    message |-> << >>]
        found_doctors == find_doctor_by_name(s, doctor_name)
    IN  IF ~Truthy(found_doctors)
        THEN [result0 EXCEPT !.message = Msg("not_found", << doctor_name >>)]
        ELSE LET doctor == found_doctors[1]
             IN  IF /\ Truthy(specialty)
                    /\ ~Contains(lower(specialty), lower(doctor.specialty))
                 THEN [result0 EXCEPT
                          !.specialty_matches = FALSE,
                          !.message = Msg("specialty_mismatch",
                                          << doctor.name, doctor.specialty, specialty >>),
                          !.doctor_info = doctor]
                 ELSE CheckTime(s, result0, doctor, time_slot)

\* faulty variant: specialty_matches starts False and needs a requested specialty
check_doctor_availability_NoDefault(s, doctor_name, specialty, time_slot) ==
    LET result0 == [doctor_exists |-> FALSE,
                    specialty_matches |-> FALSE,
                    available_at_time |-> FALSE,
                    doctor_info |-> NoneVal,
                    message |-> << >>]
        found_doctors == find_doctor_by_name(s, doctor_name)
    IN  IF ~Truthy(found_doctors)
        THEN [result0 EXCEPT !.message = Msg("not_found", << doctor_name >>)]
        ELSE LET doctor == found_doctors[1]
                 result1 == [result0 EXCEPT !.doctor_exists = TRUE]
             IN  IF ~Truthy(specialty)
                 THEN CheckTime(s, result1, doctor, time_slot)
                 ELSE IF ~Contains(lower(specialty), lower(doctor.specialty))
                 THEN [result1 EXCEPT
                          !.message = Msg("specialty_mismatch",
                                          << doctor.name, doctor.specialty, specialty >>),
                          !.doctor_info = doctor]
                 ELSE CheckTime(s, [result1 EXCEPT !.specialty_matches = TRUE],
                                doctor, time_slot)

\* faulty variant: a specialty mismatch is recorded but the time check still runs
check_doctor_availability_NoStop(s, doctor_name, specialty, time_slot) ==
    LET result0 == [doctor_exists |-> FALSE,
                    specialty_matches |-> TRUE,
                    available_at_time |-> FALSE,
                    doctor_info |-> NoneVal,
                    message |-> << >>]
        found_doctors == find_doctor_by_name(s, doctor_name)
    IN  IF ~Truthy(found_doctors)
        THEN [result0 EXCEPT !.message = Msg("not_found", << doctor_name >>)]
        ELSE LET doctor == found_doctors[1]
                 result1 == [result0 EXCEPT
                                !.doctor_exists = TRUE,
                                !.specialty_matches =
                                    \/ ~Truthy(specialty)
                                    \/ Contains(lower(specialty),
                                                lower(doctor.specialty))]
             IN  CheckTime(s, result1, doctor, time_slot)

\* specialty and time_slot are Optional[str]; the code tests only their truth
\* value, so None is passed as the empty string
check_doctor_availability(s, doctor_name, specialty, time_slot) ==
    LET result0 == [doctor_exists |-> FALSE,
                    specialty_matches |-> TRUE,
                    available_at_time |-> FALSE,
                    doctor_info |-> NoneVal,
                    message |-> << >>]
        found_doctors == find_doctor_by_name(s, doctor_name)
    IN  IF ~Truthy(found_doctors)
        THEN [result0 EXCEPT !.message = Msg("not_found", << doctor_name >>)]
        ELSE
        LET doctor == found_doctors[1]
            result1 == [result0 EXCEPT
                           !.doctor_exists = TRUE,
                           !.message = IF Len(found_doctors) > 1
                                       THEN Msg("multiple", << doctor_name, doctor.name >>)
                                       ELSE << >>]
            specialty_matches == Contains(lower(specialty), lower(doctor.specialty))
        IN  IF Truthy(specialty) /\ ~specialty_matches
            THEN [result1 EXCEPT
                     !.specialty_matches = FALSE,
                     !.message = Msg("specialty_mismatch",
                                     << doctor.name, doctor.specialty, specialty >>),
                     !.doctor_info = doctor]
            ELSE CheckTime(s, result1, doctor, time_slot)

check_doctor_availability_io(s, doctor_name, specialty, time_slot) ==
    LET found_doctors == find_doctor_by_name(s, doctor_name)
    IN  get_all_doctors_io(s)
        \o (IF ~Truthy(found_doctors) THEN << >>
            ELSE IF /\ Truthy(specialty)
                    /\ ~Contains(lower(specialty), lower(found_doctors[1].specialty))
            THEN << >>
            ELSE CheckTime_io(s, found_doctors[1], time_slot))

-----------------------------------------------------------------------------
(* DoctorsSchedule.get_context_for_rag *)

RECURSIVE RagLines(_)
RagLines(doctors) ==
    IF doctors = << >> THEN << >>
    ELSE Msg("rag_item", << Head(doctors).name, Head(doctors).specialty >>)
         \o RagLines(Tail(doctors))

\* faulty variant: every doctor of the match-set is listed
get_context_for_rag_Uncapped(s, doctor_name, specialty) ==
    IF ~s.doctors_worksheet THEN Msg("db_unavailable", << >>)
    ELSE LET doctors == IF Truthy(doctor_name) THEN find_doctor_by_name(s, doctor_name)
                        ELSE IF Truthy(specialty)
                        THEN find_doctors_by_specialty(s, specialty)
                        ELSE get_all_doctors(s)
         IN  IF ~Truthy(doctors)
             THEN Msg("rag_not_found", << doctor_name, specialty >>)
             ELSE Msg("rag_header", << >>) \o RagLines(doctors)
                  \o Msg("rag_end", << >>)

\* faulty variant: an empty match-set is rendered as a listing without lines
get_context_for_rag_EmptyListing(s, doctor_name, specialty) ==
    IF ~s.doctors_worksheet THEN Msg("db_unavailable", << >>)
    ELSE LET doctors == IF Truthy(doctor_name) THEN find_doctor_by_name(s, doctor_name)
                        ELSE IF Truthy(specialty)
                        THEN find_doctors_by_specialty(s, specialty)
                        ELSE get_all_doctors(s)
         IN  Msg("rag_header", << >>)
             \o RagLines(SubSeq(doctors, 1, Min(RAG_LIMIT, Len(doctors))))
             \o Msg("rag_end", << >>)

\* doctor_name and specialty are Optional[str], None passed as the empty string
get_context_for_rag(s, doctor_name, specialty) ==
    IF ~s.doctors_worksheet THEN Msg("db_unavailable", << >>)
    ELSE LET doctors == IF Truthy(doctor_name) THEN find_doctor_by_name(s, doctor_name)
                        ELSE IF Truthy(specialty)
                        THEN find_doctors_by_specialty(s, specialty)
                        ELSE get_all_doctors(s)
         IN  IF ~Truthy(doctors)
             THEN Msg("rag_not_found", << doctor_name, specialty >>)
             ELSE Msg("rag_header", << >>)
                  \o RagLines(SubSeq(doctors, 1, Min(RAG_LIMIT, Len(doctors))))
                  \o Msg("rag_end", << >>)

get_context_for_rag_io(s, doctor_name, specialty) ==
    IF ~s.doctors_worksheet THEN << >>
    ELSE get_all_doctors_io(s)
         \o (IF Truthy(doctor_name) \/ Truthy(specialty)
             THEN get_all_doctors_io(s) ELSE << >>)

\* The characters of the string get_context_for_rag returns.  The fixed texts
\* of lines 454, 464, 466 are written letter for letter in Latin letters.
T_db_unavailable ==
    << "B", "a", "z", "a", " ", "d", "a", "n", "n", "y", "h", " ", "v", "r", "a",
       "c", "e", "j", " ", "n", "e", "d", "o", "s", "t", "u", "p", "n", "a" >>

T_not_found_name ==
    << "V", "r", "a", "c", "i", " ", "n", "e", " ", "n", "a", "j", "d", "e", "n",
       "y", " ", "(", "f", "i", "l", "x", "t", "r", ":", " ", "i", "m", "q", "=",
       "'" >>

T_not_found_specialty ==
    << "'", ",", " ", "s", "p", "e", "c", "i", "a", "l", "x", "n", "o", "s", "t",
       "x", "=", "'" >>

T_not_found_end == << "'", ")" >>

T_rag_header ==
    << "I", "n", "f", "o", "r", "m", "a", "c", "i", "q", " ", "o", " ", "v", "r",
       "a", "c", "a", "h", " ", "i", "z", " ", "b", "a", "z", "y", " ", "d", "a",
       "n", "n", "y", "h", ":", "\n", "\n" >>

\* a filter in the f-string of line 464: the callers pass None for no filter
\* (llm_corrector.py lines 262, 398-399)
FormatFilter(arg) == IF arg = << >> THEN << "N", "o", "n", "e" >> ELSE arg

FormatPart(m) ==
    CASE m.tpl = "db_unavailable" -> T_db_unavailable
      [] m.tpl = "rag_not_found" ->
             T_not_found_name \o FormatFilter(m.args[1]) \o T_not_found_specialty
             \o FormatFilter(m.args[2]) \o T_not_found_end
      [] m.tpl = "rag_header" -> T_rag_header
      [] m.tpl = "rag_item" ->
             << "-", " " >> \o m.args[1] \o << ",", " " >> \o m.args[2] \o << "\n" >>
      [] m.tpl = "rag_end" -> << "\n" >>

RECURSIVE Format(_)
Format(context) ==
    IF context = << >> THEN << >>
    ELSE FormatPart(Head(context)) \o Format(Tail(context))

-----------------------------------------------------------------------------
(* CallCorrector._call_llm and the clarifier's reply.                        *)
(* The text of a reply is [fence, body]: fence says whether the body is      *)
(* wrapped in ```json ... ```, in ``` ... ``` or not at all; body is         *)
(* [kind |-> "empty"], [kind |-> "garbage"] or [kind |-> "json", value |-> d] *)

EmptyText == [fence |-> "none", body |-> [kind |-> "empty"]]

TextTruthy(text) == text # EmptyText

\* reply is what the chat completion does: raises, or has a content
_call_llm(has_llm, reply) ==
    IF ~has_llm THEN EmptyText
    ELSE IF reply.raises THEN EmptyText
    ELSE reply.content

\* lines 456-459: the text between the fences, or the text itself
StripFence(text) == text.body

\* json.loads succeeds
JsonValid(body) == body.kind = "json"

\* faulty variant: the parsed suggestion is merged into the verdict
ClarifiedMerging(r, text) ==
    IF ~TextTruthy(text) THEN r
    ELSE LET body == StripFence(text)
             value == IF JsonValid(body) THEN body.value
                      ELSE [recommendation |-> body]
         IN  [k \in DOMAIN r \cup {"llm_clarification"} |->
                 IF k = "llm_clarification" THEN value
                 ELSE IF k \in DOMAIN value THEN value[k]
                 ELSE r[k]]

\* faulty variant: text that is not JSON is dropped
ClarifiedOmittingUnparsed(r, text) ==
    IF ~TextTruthy(text) THEN r
    ELSE LET body == StripFence(text)
         IN  IF ~JsonValid(body) THEN r
             ELSE [k \in DOMAIN r \cup {"llm_clarification"} |->
                      IF k = "llm_clarification" THEN body.value ELSE r[k]]

\* lines 454-462: result after the clarifier's answer `text`
Clarified(r, text) ==
    IF ~TextTruthy(text) THEN r
    ELSE LET body == StripFence(text)
             value == IF JsonValid(body) THEN body.value
                      ELSE [recommendation |-> body]
         IN  [k \in DOMAIN r \cup {"llm_clarification"} |->
                 IF k = "llm_clarification" THEN value ELSE r[k]]

-----------------------------------------------------------------------------
(* CallCorrector._verify_doctor_availability *)

\* appointment_info.get(k, "")
Field(info, k) == Get(info, k, << >>)

RequestKeys == {"doctor_name", "doctor_specialty", "appointment_date",
                "appointment_time"}

\* lines 384-387: .strip() of a field that is None raises AttributeError
StripRaises(info) == \E k \in RequestKeys : Field(info, k) = NoneStr

\* faulty variant: the name is tested as given, whitespace included
doctor_name_of_Unstripped(info) == Field(info, "doctor_name")

doctor_name_of(info) == strip(Field(info, "doctor_name"))
specialty_of(info) == strip(Field(info, "doctor_specialty"))
appointment_time_of(info) == strip(Field(info, "appointment_time"))

\* lines 378-382
UnavailableResult ==
    [verified |-> FALSE, message |-> Msg("db_unavailable", << >>),
     doctor_info |-> NoneVal]

\* lines 390-394
NotSpecifiedResult ==
    [verified |-> FALSE, message |-> Msg("doctor_not_specified", << >>),
     doctor_info |-> NoneVal]

\* faulty variant: verified does not look at available_at_time
AggregateIgnoringTime(verification_result, context) ==
    [verified |-> /\ Get(verification_result, "doctor_exists", FALSE)
                  /\ Get(verification_result, "specialty_matches", TRUE),
     doctor_exists |-> Get(verification_result, "doctor_exists", FALSE),
     specialty_matches |-> Get(verification_result, "specialty_matches", TRUE),
     available_at_time |-> Get(verification_result, "available_at_time", FALSE),
     message |-> Get(verification_result, "message", << >>),
     doctor_info |-> Get(verification_result, "doctor_info", NoneVal),
     doctors_context |-> context]

\* lines 411-423
Aggregate(verification_result, context) ==
    [verified |-> /\ Get(verification_result, "doctor_exists", FALSE)
                  /\ Get(verification_result, "specialty_matches", TRUE)
                  /\ Get(verification_result, "available_at_time", FALSE),
     doctor_exists |-> Get(verification_result, "doctor_exists", FALSE),
     specialty_matches |-> Get(verification_result, "specialty_matches", TRUE),
     available_at_time |-> Get(verification_result, "available_at_time", FALSE),
     message |-> Get(verification_result, "message", << >>),
     doctor_info |-> Get(verification_result, "doctor_info", NoneVal),
     doctors_context |-> context]

\* faulty variant: the clarifier is asked whatever the verdict
NeedsClarifierAlways(r, has_llm) == has_llm

\* line 426
NeedsClarifier(r, has_llm) == ~r.verified /\ has_llm

\* lines 377-394: the early returns
Call(info) ==
    /\ pc = "idle"
    /\ appointment_info' = info
    /\ IF ~doctors_schedule
       THEN /\ result' = UnavailableResult
            /\ outcome' = "returned"
            /\ pc' = "done"
       ELSE IF StripRaises(info)
       THEN /\ outcome' = "raised"
            /\ pc' = "done"
            /\ UNCHANGED result
       ELSE IF ~Truthy(doctor_name_of(info))
       THEN /\ result' = NotSpecifiedResult
            /\ outcome' = "returned"
            /\ pc' = "done"
       ELSE /\ pc' = "rag"
            /\ UNCHANGED << result, outcome >>
    /\ UNCHANGED << store, doctors_schedule, llm, doctors_context, clarification, io >>
    /\ UNCHANGED << call, ret, threads, cache, corrections >>

\* lines 396-400
Rag ==
    /\ pc = "rag"
    /\ doctors_context' = get_context_for_rag(store,
                              doctor_name_of(appointment_info),
                              specialty_of(appointment_info))
    /\ io' = io \o get_context_for_rag_io(store,
                              doctor_name_of(appointment_info),
                              specialty_of(appointment_info))
    /\ pc' = "check"
    /\ UNCHANGED << store, doctors_schedule, llm, appointment_info, result,
                    clarification, outcome >>
    /\ UNCHANGED << call, ret, threads, cache, corrections >>

\* lines 402-426
Check ==
    /\ pc = "check"
    /\ LET verification_result ==
               check_doctor_availability(store,
                   doctor_name_of(appointment_info),
                   specialty_of(appointment_info),
                   appointment_time_of(appointment_info))
           r == Aggregate(verification_result, doctors_context)
       IN  /\ result' = r
           /\ IF NeedsClarifier(r, llm)
              THEN pc' = "clarify" /\ UNCHANGED outcome
              ELSE pc' = "done" /\ outcome' = "returned"
    /\ io' = io \o check_doctor_availability_io(store,
                       doctor_name_of(appointment_info),
                       specialty_of(appointment_info),
                       appointment_time_of(appointment_info))
    /\ UNCHANGED << store, doctors_schedule, llm, appointment_info, doctors_context,
                    clarification >>
    /\ UNCHANGED << call, ret, threads, cache, corrections >>

\* lines 453-464
Clarify(reply) ==
    /\ pc = "clarify"
    /\ clarification' = _call_llm(llm, reply)
    /\ result' = Clarified(result, clarification')
    /\ io' = Append(io, "llm")
    /\ outcome' = "returned"
    /\ pc' = "done"
    /\ UNCHANGED << store, doctors_schedule, llm, appointment_info, doctors_context >>
    /\ UNCHANGED << call, ret, threads, cache, corrections >>

\* the caller takes the verdict (or the exception); the corrector is reused
Return ==
    /\ pc = "done"
    /\ pc' = "idle"
    /\ appointment_info' = EmptyDict
    /\ doctors_context' = << >>
    /\ result' = EmptyDict
    /\ clarification' = EmptyText
    /\ outcome' = "none"
    /\ io' = << >>
    /\ UNCHANGED << store, doctors_schedule, llm >>
    /\ UNCHANGED << call, ret, threads, cache, corrections >>

-----------------------------------------------------------------------------
(* The sheets, the requests and the clarifier replies the model ranges over *)

SeqsUpTo(S, n) == UNION { [1..k -> S] : k \in 0..n }

S_IvI == << "I", "v", " ", "I" >>
S_Iva == << "I", "v", "a" >>
S_Te == << "T", "e" >>
S_Ka == << "K", "a" >>

D1 == [name |-> S_IvI, specialty |-> S_Te]
D2 == [name |-> S_Iva, specialty |-> S_Ka]

\* a doctor whose specialty cell is empty
D3 == [name |-> << "I", "v" >>, specialty |-> << >>]

DoctorPool == {D1, D2, D3}

Rosters == SeqsUpTo(DoctorPool, MaxRoster)

\* headers of the schedule sheet: column 1 is the time axis
TimeLabel == << "T" >>
HeaderPool == { << "I", "V", " ", "I" >>, S_Iva }
Headers == { << TimeLabel >> \o h : h \in SeqsUpTo(HeaderPool, MaxCols) }

GridRows == 2..((END_HOUR - START_HOUR) + 2)
GridCols == 2..(MaxCols + 1)

WHITE_RGB == [red |-> 100000000, green |-> 100000000, blue |-> 100000000]
WHITE == PyColor(WHITE_RGB)

GreenCell == [color |-> COLOR_GREEN, value |-> << >>]
RedCell == [color |-> COLOR_RED, value |-> W_free]
BlueCell == [color |-> COLOR_BLUE, value |-> << >>]
WhiteCell == [color |-> WHITE, value |-> << >>]
\* a color that is no reference color, with the text "free"
WhiteFreeCell == [color |-> WHITE, value |-> W_free]
PlainEmptyCell == [color |-> EmptyDict, value |-> << >>]
PlainBusyCell == [color |-> EmptyDict, value |-> << "B", "u", "s", "y" >>]
OtherCell == [color |-> EmptyDict, value |-> << "x" >>]

CellPool ==
    {GreenCell, RedCell, BlueCell, WhiteCell, WhiteFreeCell, PlainEmptyCell,
     PlainBusyCell}

\* a sheet whose cells all hold OtherCell except the cell at `hot`
Grid(hot, cell) ==
    [rc \in GridRows \X GridCols |-> IF rc = hot THEN cell ELSE OtherCell]

HotSpots == { << 2, 2 >>, << (END_HOUR - START_HOUR) + 2, MaxCols + 1 >> }

Grids == { Grid(hot, cell) : hot \in HotSpots, cell \in CellPool }

BaseRoster == << D1, D2 >>
BaseHeader == << TimeLabel, << "I", "V", " ", "I" >>, S_Iva >>
BaseCells == Grid(<< 2, 2 >>, GreenCell)

BaseStore ==
    [doctors_worksheet |-> TRUE, roster_raises |-> FALSE, roster |-> BaseRoster,
     schedule_worksheet |-> TRUE, header_raises |-> FALSE, cell_raises |-> FALSE,
     color_raises |-> FALSE, header |-> BaseHeader, cells |-> BaseCells]

\* The sheets are varied one side at a time around a reference spreadsheet.
\* The roster side varies, the schedule side is the reference sheet
RosterStores ==
    { [BaseStore EXCEPT !.roster = r, !.roster_raises = f] :
        r \in Rosters, f \in BOOLEAN }
    \cup { [BaseStore EXCEPT !.doctors_worksheet = FALSE, !.roster = << >>] }

\* the schedule side varies, the roster is the reference roster
GridStores ==
    { [BaseStore EXCEPT !.header = h, !.cells = g] : h \in Headers, g \in Grids }
    \cup { [BaseStore EXCEPT !.header_raises = TRUE, !.cells = g] : g \in Grids }
    \cup { [BaseStore EXCEPT !.cell_raises = TRUE, !.cells = g] : g \in Grids }
    \cup { [BaseStore EXCEPT !.color_raises = TRUE, !.cells = g] : g \in Grids }
    \cup { [BaseStore EXCEPT !.schedule_worksheet = FALSE] }

\* the spreadsheet could not be opened: both worksheets are None
ClosedStore ==
    [BaseStore EXCEPT !.doctors_worksheet = FALSE, !.roster = << >>,
                      !.schedule_worksheet = FALSE]

Stores == RosterStores \cup GridStores \cup {ClosedStore}

NamePool == { << >>, << " " >>, << "i", "v" >>, << "P", "e" >> }
SpecialtyPool == { << >>, << "t", "e" >>, << "k", "a" >> }
TimePool ==
    { << >>, << "8" >>, << "9" >>, << "2", "1" >>, << "2", "2" >>,
      << "x" >>, << "x", ":", "3" >>, << "9", ":", "3" >> }

\* what json.loads gives _extract_appointment_info when the model's answer has
\* all the keys as strings
FullRequests ==
    [doctor_name : NamePool, doctor_specialty : SpecialtyPool,
     appointment_time : TimePool]

\* answers with keys left out or set to null (lines 333, 360: the parsed JSON
\* is passed on as it is, {} after an error)
PartialRequests ==
    { EmptyDict,
      [doctor_name |-> << "i", "v" >>],
      [doctor_name |-> << "i", "v" >>, appointment_time |-> << "9" >>],
      [doctor_name |-> NoneStr, doctor_specialty |-> << >>,
       appointment_time |-> << >>],
      [doctor_name |-> << "i", "v" >>, doctor_specialty |-> NoneStr,
       appointment_time |-> << "9" >>],
      [doctor_name |-> << "i", "v" >>, doctor_specialty |-> << >>,
       appointment_time |-> NoneStr],
      [doctor_name |-> << "i", "v" >>, appointment_date |-> NoneStr] }

Requests == FullRequests \cup PartialRequests

JsonAdvice ==
    [doctor_exists_alternative |-> "yes", suggested_specialty |-> "Te",
     alternative_doctors |-> << >>, recommendation |-> "book"]

\* a reply that claims the doctor exists and is available
JsonOverride ==
    [verified |-> TRUE, doctor_exists |-> TRUE, specialty_matches |-> TRUE,
     available_at_time |-> TRUE, message |-> << >>, doctor_info |-> D1]

LLMReplies ==
    { [raises |-> TRUE, content |-> EmptyText],
      [raises |-> FALSE, content |-> EmptyText],
      [raises |-> FALSE,
       content |-> [fence |-> "none", body |-> [kind |-> "garbage"]]],
      [raises |-> FALSE,
       content |-> [fence |-> "plain", body |-> [kind |-> "garbage"]]],
      [raises |-> FALSE,
       content |-> [fence |-> "none", body |-> [kind |-> "json", value |-> JsonAdvice]]],
      [raises |-> FALSE,
       content |-> [fence |-> "json",
                    body |-> [kind |-> "json", value |-> JsonOverride]]] }

-----------------------------------------------------------------------------
(* The state machine *)

\* no method is called on its own
NoCall == [fn |-> "none"]

\* the method called has not returned yet / has returned v
NotReturned == [done |-> FALSE]
Returned(v) == [done |-> TRUE, value |-> v]

Init ==
    /\ doctors_schedule \in BOOLEAN
    /\ store \in IF doctors_schedule THEN Stores ELSE {ClosedStore}
    /\ llm \in BOOLEAN
    /\ pc = "idle"
    /\ appointment_info = EmptyDict
    /\ doctors_context = << >>
    /\ result = EmptyDict
    /\ clarification = EmptyText
    /\ outcome = "none"
    /\ io = << >>
    /\ call = NoCall
    /\ ret = NotReturned
    /\ threads = << >>
    /\ cache = EmptyDict
    /\ corrections = << >>

Next ==
    \/ \E info \in Requests : Call(info)
    \/ Rag
    \/ Check
    \/ \E reply \in LLMReplies : Clarify(reply)
    \/ Return

Spec == Init /\ [][Next]_vars

-----------------------------------------------------------------------------
(* The methods of DoctorsSchedule called on their own: the initial state    *)
(* holds one call with its arguments, the action of the method returns.     *)

Channels == {"red", "green", "blue"}

\* distances from a reference channel: at, just inside and just outside the
\* tolerance, in units of the eighth decimal
Deltas ==
    { -(THRESHOLD + 1), -THRESHOLD, -(THRESHOLD - 1), 0,
      THRESHOLD - 1, THRESHOLD, THRESHOLD + 1 }

\* a reference color with one channel moved; channels stay within 0..1
NearColors ==
    { c \in { [ref EXCEPT ![ch] = ref[ch] + d] :
                 ref \in {GREEN_RGB, RED_RGB, BLUE_RGB}, ch \in Channels,
                 d \in Deltas } :
        \A ch \in Channels : c[ch] <= WHITE_RGB[ch] }

\* colors within the tolerance of two and of three references
GreenRed_RGB == [red |-> 90000000, green |-> 85000000, blue |-> 81000000]
GreenRedBlue_RGB == [red |-> 86000000, green |-> 85000000, blue |-> 88000000]

\* a color outside every tolerance, nearest to the busy reference
Grey_RGB == [red |-> 80000000, green |-> 68000000, blue |-> 68000000]

\* a backgroundColor without its zero channels
RedOnly_RGB == [red |-> 95686275]

FarColors == {GreenRed_RGB, GreenRedBlue_RGB, Grey_RGB, WHITE_RGB, RedOnly_RGB}

ClassifyCalls ==
    { [fn |-> "_get_cell_color_status", cell_color |-> c] :
        c \in NearColors \cup FarColors }
    \cup { [fn |-> "_get_cell_color_status", cell_color |-> EmptyDict] }

\* "Ivanov I.I.", "Terapevt" (the example of the specification, transliterated)
S_Ivanov == << "I", "v", "a", "n", "o", "v", " ", "I", ".", "I", "." >>
S_Terapevt == << "T", "e", "r", "a", "p", "e", "v", "t" >>
D_Ivanov == [name |-> S_Ivanov, specialty |-> S_Terapevt]

\* a row of the roster sheet whose name cell is empty
BlankRow == [name |-> << >>, specialty |-> S_Te]

FnRosters == SeqsUpTo({D_Ivanov, D2, D3, BlankRow}, MaxRoster)

FnRosterStores ==
    { [BaseStore EXCEPT !.roster = r] : r \in FnRosters }
    \cup { [BaseStore EXCEPT !.roster = << D_Ivanov >>, !.roster_raises = TRUE],
           [BaseStore EXCEPT !.roster = << >>, !.doctors_worksheet = FALSE] }

NameQueries ==
    { << "I", "v", "a", "n", "o", "v" >>, << "P", "e", "t", "r", "o", "v" >>,
      << "I", "V", "A" >>, << " ", "i", "v" >>, << "I", "v", "a", " ", "K" >>,
      << >> }

SpecialtyQueries ==
    { << "t", "e" >>, << "K", "A", " " >>, << "T", "e", "r", "a", "p", "e", "v", "t", "y" >>,
      << "x" >> }

FindByNameCalls ==
    { [fn |-> "find_doctor_by_name", s |-> s, doctor_name |-> q] :
        s \in FnRosterStores, q \in NameQueries }

FindBySpecialtyCalls ==
    { [fn |-> "find_doctors_by_specialty", s |-> s, specialty |-> q] :
        s \in FnRosterStores, q \in SpecialtyQueries }

\* header cells: the family name alone, a name nobody of the roster has, an
\* empty cell, and the names of the roster
FnHeaderPool ==
    { << "I", "v", "a", "n", "o", "v" >>, << "I", "v", "x" >>, << >>, S_Ivanov, S_Iva }

FnHeaders == { << TimeLabel >> \o h : h \in SeqsUpTo(FnHeaderPool, MaxCols) }

FnGridStores ==
    { [BaseStore EXCEPT !.roster = r, !.header = h] :
        r \in { << D_Ivanov >>, << D2 >>, << D_Ivanov, D2 >> }, h \in FnHeaders }
    \cup { [BaseStore EXCEPT !.header_raises = TRUE],
           [BaseStore EXCEPT !.schedule_worksheet = FALSE] }

\* the names the column is asked for: names of the roster, and a fragment
ColumnNames == { S_Ivanov, S_Iva, << "i", "v" >> }

ColumnIndexCalls ==
    { [fn |-> "_get_doctor_column_index", s |-> s, doctor_name |-> n] :
        s \in FnGridStores, n \in ColumnNames }

\* texts of a schedule cell
CellTexts ==
    { << >>, W_svobodno, << "S", "v", "o", "b", "o", "d", "n", "o" >>,
      W_free, << "F", "r", "e", "e" >>, << "F", "R", "E", "E" >>,
      W_zanyato, << "Z", "a", "n", "y", "a", "t", "o" >>,
      W_busy, << "B", "u", "s", "y" >>,
      W_zanyat, << "Z", "A", "N", "Y", "A", "T" >>,
      W_vyhodnoy, << "V", "y", "h", "o", "d", "n", "o", "y" >>,
      W_holiday, << "H", "o", "l", "i", "d", "a", "y" >>,
      W_vyh, << "V", "Y", "H" >>,
      << "x" >>, << " " >>, << " ", "f", "r", "e", "e" >>, << "f", "r", "e" >>,
      << "b", "u", "s", "y", "!" >> }

CellColors == {EmptyDict, COLOR_GREEN, COLOR_RED, WHITE}

\* the cell of row 2, column 2 holds the text and the color; the color
\* request works or raises
FnCellStores ==
    { [BaseStore EXCEPT !.cells = Grid(<< 2, 2 >>, [color |-> c, value |-> v]),
                        !.color_raises = f] :
        c \in CellColors, v \in CellTexts, f \in BOOLEAN }

CellStatusCalls ==
    { [fn |-> "cell_status", s |-> s, row_index |-> 2, col_index |-> 2] :
        s \in FnCellStores }

\* a roster longer than the listing of get_context_for_rag: doctors
\* "Ivanov I.I.a", "Ivanov I.I.b", ..., every seventh of another specialty
Letters ==
    << "a", "b", "c", "d", "e", "f", "g", "h", "i", "j", "k", "l", "m", "n", "o",
       "p" >>

LongDoctor(i) ==
    [name |-> S_Ivanov \o << Letters[i] >>,
     specialty |-> IF i % 7 = 0 THEN S_Ka ELSE S_Terapevt]

LongRosters == { [i \in 1..n |-> LongDoctor(i)] : n \in 0..MaxRagRoster }

RagStores ==
    { [BaseStore EXCEPT !.roster = r] : r \in LongRosters } \cup FnRosterStores

\* no filter, a name, a specialty, both
RagFilters ==
    { [doctor_name |-> << >>, specialty |-> << >>],
      [doctor_name |-> << "i", "v", "a", "n", "o", "v" >>, specialty |-> << >>],
      [doctor_name |-> S_Ivanov \o << "c" >>, specialty |-> << >>],
      [doctor_name |-> << "P", "e", "t", "r", "o", "v" >>, specialty |-> << >>],
      [doctor_name |-> << >>, specialty |-> << "t", "e", "r", "a", "p", "e", "v", "t" >>],
      [doctor_name |-> << >>, specialty |-> << "k", "a" >>],
      [doctor_name |-> << >>, specialty |-> << "x" >>],
      [doctor_name |-> << "i", "v", "a", "n", "o", "v" >>, specialty |-> << "k", "a" >>] }

RagCalls ==
    { [fn |-> "get_context_for_rag", s |-> s, doctor_name |-> f.doctor_name,
       specialty |-> f.specialty] : s \in RagStores, f \in RagFilters }

\* check_doctor_availability called on its own: any name (the empty one too),
\* with or without a specialty and a time
AvailabilityCalls ==
    { [fn |-> "check_doctor_availability", s |-> s, doctor_name |-> n,
       specialty |-> sp, time_slot |-> ts] :
        s \in Stores,
        n \in { << >>, << "i", "v" >>, << "P", "e" >>, << " ", "i", "v", "a", " " >> },
        sp \in { << >>, << "k", "a" >> },
        ts \in { << >>, << "9" >>, << "8" >>, << "x" >>, << "+", "9" >>,
                 << "1", "_", "0", ":", "3" >> } }

FnInit ==
    /\ doctors_schedule = TRUE
    /\ store = BaseStore
    /\ llm = FALSE
    /\ pc = "idle"
    /\ appointment_info = EmptyDict
    /\ doctors_context = << >>
    /\ result = EmptyDict
    /\ clarification = EmptyText
    /\ outcome = "none"
    /\ io = << >>
    /\ \/ call \in ClassifyCalls
       \/ call \in FindByNameCalls
       \/ call \in FindBySpecialtyCalls
       \/ call \in ColumnIndexCalls
       \/ call \in CellStatusCalls
       \/ call \in RagCalls
       \/ call \in AvailabilityCalls
    /\ ret = NotReturned
    /\ threads = << >>
    /\ cache = EmptyDict
    /\ corrections = << >>

verify_vars ==
    << store, doctors_schedule, llm, pc, appointment_info, doctors_context,
       result, clarification, outcome, io >>

\* _get_cell_color_status(cell_color), cell_color holding the floats of the
\* decimal numbers of the API response
Classify ==
    /\ call.fn = "_get_cell_color_status" /\ ~ret.done
    /\ ret' = Returned(_get_cell_color_status(PyColor(call.cell_color)))
    /\ UNCHANGED << verify_vars, call, threads, cache, corrections >>

FindByName ==
    /\ call.fn = "find_doctor_by_name" /\ ~ret.done
    /\ ret' = Returned(find_doctor_by_name(call.s, call.doctor_name))
    /\ UNCHANGED << verify_vars, call, threads, cache, corrections >>

FindBySpecialty ==
    /\ call.fn = "find_doctors_by_specialty" /\ ~ret.done
    /\ ret' = Returned(find_doctors_by_specialty(call.s, call.specialty))
    /\ UNCHANGED << verify_vars, call, threads, cache, corrections >>

ColumnIndex ==
    /\ call.fn = "_get_doctor_column_index" /\ ~ret.done
    /\ ret' = Returned(_get_doctor_column_index(call.s, call.doctor_name))
    /\ UNCHANGED << verify_vars, call, threads, cache, corrections >>

\* lines 355-412 of check_doctor_availability: the status of the cell read
ReadCell ==
    /\ call.fn = "cell_status" /\ ~ret.done
    /\ ret' = Returned(CellStatus(call.s, call.row_index, call.col_index))
    /\ UNCHANGED << verify_vars, call, threads, cache, corrections >>

\* get_context_for_rag called on its own
RagContext ==
    /\ call.fn = "get_context_for_rag" /\ ~ret.done
    /\ ret' = Returned(get_context_for_rag(call.s, call.doctor_name, call.specialty))
    /\ UNCHANGED << verify_vars, call, threads, cache, corrections >>

\* check_doctor_availability called on its own
Availability ==
    /\ call.fn = "check_doctor_availability" /\ ~ret.done
    /\ ret' = Returned(check_doctor_availability(call.s, call.doctor_name,
                                                 call.specialty, call.time_slot))
    /\ UNCHANGED << verify_vars, call, threads, cache, corrections >>

FnNext ==
    \/ Classify
    \/ FindByName
    \/ FindBySpecialty
    \/ ColumnIndex
    \/ ReadCell
    \/ RagContext
    \/ Availability

FnSpec == FnInit /\ [][FnNext]_vars

-----------------------------------------------------------------------------
(* Several callers of one CallCorrector.  Each call of                       *)
(* _verify_doctor_availability has its own local variables; the corrector,   *)
(* its DoctorsSchedule and the sheets are shared.  The calls interleave      *)
(* between their reads of the sheets; the sheets are edited by the clinic    *)
(* while no call is running.                                                 *)

Callers == {1, 2}

NoLocals ==
    [pc |-> "idle", appointment_info |-> EmptyDict, doctors_context |-> << >>,
     result |-> EmptyDict, outcome |-> "none", io |-> << >>, stale |-> FALSE]

\* the 9:00 slot of "Iv I" is free / busy; "Iv I" has left the roster
FreeSheet == BaseStore
BusySheet == [BaseStore EXCEPT !.cells = Grid(<< 2, 2 >>, RedCell)]
RemovedSheet == [BaseStore EXCEPT !.roster = << D2 >>]

Sheets == {FreeSheet, BusySheet, RemovedSheet}

ServiceRequests ==
    { [doctor_name |-> << "i", "v", " ", "i" >>, doctor_specialty |-> << >>,
       appointment_time |-> << "9" >>],
      [doctor_name |-> << "i", "v", "a" >>, doctor_specialty |-> << "k", "a" >>,
       appointment_time |-> << >>],
      [doctor_name |-> << "P", "e" >>, doctor_specialty |-> << >>,
       appointment_time |-> << "9" >>] }

ServiceReplies ==
    { [raises |-> TRUE, content |-> EmptyText],
      [raises |-> FALSE,
       content |-> [fence |-> "json",
                    body |-> [kind |-> "json", value |-> JsonOverride]]] }

\* faulty variant: the variable is an attribute of the corrector, one for all
\* the calls
SetLocal_Shared(ts, p, name, value) ==
    [q \in DOMAIN ts |-> [ts[q] EXCEPT ![name] = value]]

\* an assignment to a local variable of call p
SetLocal(ts, p, name, value) == [ts EXCEPT ![p][name] = value]

\* faulty variant: the verdict of a finished call for the same request is
\* handed out again
verdict_of_Cached(s, ts, p) ==
    IF \E q \in DOMAIN ts :
           /\ q # p /\ ts[q].pc = "done"
           /\ ts[q].appointment_info = ts[p].appointment_info
           /\ "doctor_exists" \in DOMAIN ts[q].result
    THEN LET q == CHOOSE q \in DOMAIN ts :
                      /\ q # p /\ ts[q].pc = "done"
                      /\ ts[q].appointment_info = ts[p].appointment_info
                      /\ "doctor_exists" \in DOMAIN ts[q].result
         IN  [k \in DOMAIN ts[q].result \ {"llm_clarification"} |-> ts[q].result[k]]
    ELSE Aggregate(
             check_doctor_availability(s,
                 doctor_name_of(ts[p].appointment_info),
                 specialty_of(ts[p].appointment_info),
                 appointment_time_of(ts[p].appointment_info)),
             ts[p].doctors_context)

\* lines 402-423 for call p: the sheets are read anew, the locals are p's
verdict_of(s, ts, p) ==
    Aggregate(
        check_doctor_availability(s,
            doctor_name_of(ts[p].appointment_info),
            specialty_of(ts[p].appointment_info),
            appointment_time_of(ts[p].appointment_info)),
        ts[p].doctors_context)

ServiceInit ==
    /\ doctors_schedule = TRUE
    /\ store = FreeSheet
    /\ llm \in BOOLEAN
    /\ pc = "idle"
    /\ appointment_info = EmptyDict
    /\ doctors_context = << >>
    /\ result = EmptyDict
    /\ clarification = EmptyText
    /\ outcome = "none"
    /\ io = << >>
    /\ call = NoCall
    /\ ret = NotReturned
    /\ threads = [p \in Callers |-> NoLocals]
    /\ cache = EmptyDict
    /\ corrections = << >>

single_vars ==
    << doctors_schedule, llm, pc, appointment_info, doctors_context, result,
       clarification, outcome, io, call, ret, cache, corrections >>

\* lines 377-394 for caller p, whose previous call (if any) has returned
ThreadCall(p, info) ==
    /\ threads[p].pc \in {"idle", "done"}
    /\ threads' =
           [threads EXCEPT ![p] =
               IF StripRaises(info)
               THEN [NoLocals EXCEPT !.pc = "done", !.appointment_info = info,
                                     !.outcome = "raised"]
               ELSE IF ~Truthy(doctor_name_of(info))
               THEN [NoLocals EXCEPT !.pc = "done", !.appointment_info = info,
                                     !.result = NotSpecifiedResult,
                                     !.outcome = "returned"]
               ELSE [NoLocals EXCEPT !.pc = "rag", !.appointment_info = info]]
    /\ UNCHANGED << store, single_vars >>

\* lines 396-400 for caller p
ThreadRag(p) ==
    /\ threads[p].pc = "rag"
    /\ LET info == threads[p].appointment_info
           context == get_context_for_rag(store, doctor_name_of(info),
                                          specialty_of(info))
           reads == get_context_for_rag_io(store, doctor_name_of(info),
                                           specialty_of(info))
           ts == SetLocal(threads, p, "doctors_context", context)
       IN  threads' = [ts EXCEPT ![p].pc = "check",
                                 ![p].io = threads[p].io \o reads]
    /\ UNCHANGED << store, single_vars >>

\* lines 402-426 for caller p
ThreadCheck(p) ==
    /\ threads[p].pc = "check"
    /\ LET info == threads[p].appointment_info
           r == verdict_of(store, threads, p)
           reads == check_doctor_availability_io(store, doctor_name_of(info),
                        specialty_of(info), appointment_time_of(info))
           ts == SetLocal(threads, p, "result", r)
       IN  threads' =
               [ts EXCEPT ![p].io = threads[p].io \o reads,
                          ![p].pc = IF NeedsClarifier(r, llm) THEN "clarify"
                                    ELSE "done",
                          ![p].outcome = IF NeedsClarifier(r, llm) THEN "none"
                                         ELSE "returned"]
    /\ UNCHANGED << store, single_vars >>

\* lines 453-464 for caller p
ThreadClarify(p, reply) ==
    /\ threads[p].pc = "clarify"
    /\ LET r == Clarified(threads[p].result, _call_llm(llm, reply))
           ts == SetLocal(threads, p, "result", r)
       IN  threads' = [ts EXCEPT ![p].io = Append(threads[p].io, "llm"),
                                 ![p].pc = "done",
                                 ![p].outcome = "returned"]
    /\ UNCHANGED << store, single_vars >>

\* the clinic edits the spreadsheet while no call is running; the verdicts
\* handed out before are about the old content
EditSheet(sheet) ==
    /\ \A p \in Callers : threads[p].pc \in {"idle", "done"}
    /\ sheet # store
    /\ store' = sheet
    /\ threads' = [p \in Callers |-> [threads[p] EXCEPT !.stale = TRUE]]
    /\ UNCHANGED single_vars

ServiceNext ==
    \/ \E p \in Callers, info \in ServiceRequests : ThreadCall(p, info)
    \/ \E p \in Callers : ThreadRag(p)
    \/ \E p \in Callers : ThreadCheck(p)
    \/ \E p \in Callers, reply \in ServiceReplies : ThreadClarify(p, reply)
    \/ \E sheet \in Sheets : EditSheet(sheet)

ServiceSpec == ServiceInit /\ [][ServiceNext]_vars

-----------------------------------------------------------------------------
(* CallCorrector._correct_transcription (correct_text calls it with empty    *)
(* metadata).  A text is [fence, body] as the clarifier's replies are.       *)

PlainText(word) == [fence |-> "none", body |-> [kind |-> "text", value |-> word]]

Transcriptions == { PlainText("t1"), PlainText("t2") }

\* what the chat completion does with the correction prompt
CorrectionReplies ==
    { [raises |-> TRUE, content |-> EmptyText],
      [raises |-> FALSE, content |-> EmptyText],
      [raises |-> FALSE, content |-> PlainText("c1")],
      [raises |-> FALSE, content |-> PlainText("c2")] }

\* line 205: f"correction_{hash(transcription)}"; texts that differ are taken
\* to have hashes that differ
cache_key(transcription) == transcription.body.value

\* the truth value of self.cache: None and {} are both false
CacheTruthy(c) == c # NoneVal /\ DOMAIN c # {}

\* lines 200-242: [returned, cache, asked] for the cache c found, asked saying
\* whether _call_llm was called
_correct_transcription(c, has_llm, transcription, reply) ==
    LET key == cache_key(transcription)
    IN  IF ~has_llm
        THEN [returned |-> transcription, cache |-> c, asked |-> FALSE]
        ELSE IF CacheTruthy(c) /\ key \in DOMAIN c
        THEN [returned |-> c[key], cache |-> c, asked |-> FALSE]
        ELSE LET answer == _call_llm(has_llm, reply)
                 corrected == IF ~TextTruthy(answer) THEN transcription ELSE answer
             IN  [returned |-> corrected,
                  cache |-> IF CacheTruthy(c)
                            THEN [k \in DOMAIN c \cup {key} |->
                                     IF k = key THEN corrected ELSE c[k]]
                            ELSE c,
                  asked |-> TRUE]

\* a corrector built with use_cache=True or False, with or without an API key
CorrectInit ==
    /\ doctors_schedule = TRUE
    /\ store = BaseStore
    /\ llm \in BOOLEAN
    /\ pc = "idle"
    /\ appointment_info = EmptyDict
    /\ doctors_context = << >>
    /\ result = EmptyDict
    /\ clarification = EmptyText
    /\ outcome = "none"
    /\ io = << >>
    /\ call = NoCall
    /\ ret = NotReturned
    /\ threads = << >>
    /\ cache \in {EmptyDict, NoneVal}
    /\ corrections = << >>

Correct(transcription, reply) ==
    /\ Len(corrections) < MaxCorrections
    /\ LET r == _correct_transcription(cache, llm, transcription, reply)
       IN  /\ cache' = r.cache
           /\ corrections' = Append(corrections,
                                    [transcription |-> transcription,
                                     returned |-> r.returned,
                                     asked |-> r.asked])
    /\ UNCHANGED << verify_vars, call, ret, threads >>

CorrectNext ==
    \E transcription \in Transcriptions, reply \in CorrectionReplies :
        Correct(transcription, reply)

CorrectSpec == CorrectInit /\ [][CorrectNext]_vars

-----------------------------------------------------------------------------
(* Properties *)

\* the call returned a verdict built by lines 411-423 (no early return)
FullVerdict == outcome = "returned" /\ "doctor_exists" \in DOMAIN result

ReqName == doctor_name_of(appointment_info)
ReqSpecialty == specialty_of(appointment_info)
ReqTime == appointment_time_of(appointment_info)

TimeRequested == pc # "idle" /\ ~StripRaises(appointment_info) /\ Truthy(ReqTime)

MsgTpl(r) == IF r.message = << >> THEN "" ELSE r.message[1].tpl

Occurrences(seq, e) == Cardinality({ i \in 1..Len(seq) : seq[i] = e })

GridReads == {"header", "cell", "color"}

NoGridRead == \A i \in 1..Len(io) : io[i] \notin GridReads

DeterministicKeys ==
    {"verified", "doctor_exists", "specialty_matches", "available_at_time",
     "message", "doctor_info"}

\* C1: every returned verdict has verified = doctor_exists AND specialty_matches
\* AND available_at_time, a sub-signal missing from a short-circuited verdict
\* being taken at its default (False, True, False).
C1_VerifiedIsConjunction ==
    outcome = "returned" =>
        result.verified = (/\ Get(result, "doctor_exists", FALSE)
                           /\ Get(result, "specialty_matches", TRUE)
                           /\ Get(result, "available_at_time", FALSE))

\* C1 witness: a verdict for an existing doctor of the right specialty whose
\* slot is not free, so that the conjunction is decided by one sub-signal.
C1_Witness ==
    /\ FullVerdict
    /\ result.doctor_exists /\ result.specialty_matches
    /\ ~result.available_at_time /\ ~result.verified
    /\ MsgTpl(result) = "busy"

GridUnreadable(s) ==
    \/ ~s.schedule_worksheet
    \/ s.header_raises
    \/ s.cell_raises
    \/ s.color_raises

\* C2 (as claimed): when a time is requested and the schedule grid cannot be
\* read (worksheet absent, header read fails, cell read fails, color cannot be
\* fetched), the verdict never has available_at_time = true nor verified = true.
C2_UnreadableGridNeverPositive ==
    (FullVerdict /\ TimeRequested /\ GridUnreadable(store)) =>
        ~result.available_at_time /\ ~result.verified

RosterUnreadable(s) == ~s.doctors_worksheet \/ s.roster_raises

\* the same sheets with a readable roster that holds no doctor
WithEmptyRoster(s) ==
    [s EXCEPT !.doctors_worksheet = TRUE, !.roster_raises = FALSE, !.roster = << >>]

\* the verdict lines 396-423 build for store s and the current request
VerdictFor(s) ==
    Aggregate(check_doctor_availability(s, ReqName, ReqSpecialty, ReqTime),
              get_context_for_rag(s, ReqName, ReqSpecialty))

Deterministic(r) == [k \in DOMAIN r \ {"llm_clarification"} |-> r[k]]

\* C3 (as claimed): when the roster cannot be read, the verdict differs from
\* the verdict returned for a readable roster that does not hold the doctor.
C3_UnreadableRosterIsDistinct ==
    (FullVerdict /\ RosterUnreadable(store)) =>
        Deterministic(result) # VerdictFor(WithEmptyRoster(store))

\* C4 (as claimed): a verdict for a request with an empty time has
\* available_at_time = true on every path (found, not found, mismatch).
C4_EmptyTimeIsAvailable ==
    (FullVerdict /\ ~Truthy(ReqTime)) => result.available_at_time

\* C5: when find_by_name has no candidate the verdict has doctor_exists = false,
\* verified = false and no matched doctor; the specialty is not compared
\* (specialty_matches keeps its default, the message is the not-found one)
\* and neither the header row nor a cell is read.
C5_NotFoundStops ==
    (FullVerdict /\ find_doctor_by_name(store, ReqName) = << >>) =>
        /\ ~result.doctor_exists
        /\ ~result.verified
        /\ result.doctor_info = NoneVal
        /\ result.specialty_matches
        /\ MsgTpl(result) = "not_found"
        /\ NoGridRead

\* C5 witness: a not-found verdict for a request that names a specialty and a
\* time, against a readable roster and a loaded schedule sheet.
C5_Witness ==
    /\ FullVerdict
    /\ find_doctor_by_name(store, ReqName) = << >>
    /\ ~RosterUnreadable(store) /\ store.roster # << >>
    /\ store.schedule_worksheet
    /\ Truthy(ReqSpecialty) /\ Truthy(ReqTime)

FoundDoctors == find_doctor_by_name(store, ReqName)

SpecialtyOk ==
    ~Truthy(ReqSpecialty)
    \/ Contains(lower(ReqSpecialty), lower(FoundDoctors[1].specialty))

HourParsed == IsInt(BeforeColon(ReqTime))
ReqHour == IF HourParsed THEN IntVal(BeforeColon(ReqTime)) ELSE NoneInt

\* the status the addressed cell gives, "error" when the cell cannot be read
StatusAt(s, row, col) ==
    IF CellRaises(s, row, col) THEN "error" ELSE CellStatus(s, row, col)

\* the request reaches a cell: doctor found, specialty (if any) matching, hour
\* within [START_HOUR, END_HOUR], and a column for the matched doctor
C6_Case ==
    /\ FullVerdict /\ TimeRequested
    /\ FoundDoctors # << >>
    /\ SpecialtyOk
    /\ HourParsed /\ ReqHour >= START_HOUR /\ ReqHour <= END_HOUR
    /\ _get_doctor_column_index(store, FoundDoctors[1].name) # NoneInt

\* C6: for a request that reaches a cell, available_at_time is true exactly
\* when the status of the cell at row (h - START_HOUR) + 2 and the doctor's
\* column is free; for busy, holiday and unknown available_at_time and
\* verified are false while doctor_exists and specialty_matches stay true.
C6_AvailableIffCellFree ==
    C6_Case =>
        LET status == StatusAt(store, (ReqHour - START_HOUR) + 2,
                               _get_doctor_column_index(store, FoundDoctors[1].name))
        IN  /\ result.available_at_time <=> (status = "free")
            /\ status \in {"busy", "holiday", "unknown"} =>
                   /\ ~result.available_at_time /\ ~result.verified
                   /\ result.doctor_exists /\ result.specialty_matches
                   /\ MsgTpl(result) = status

\* C6 witness: the 21:00 cell of the doctor in the last column is colored
\* busy-red (its text says free) and the verdict is the busy one.
C6_Witness ==
    /\ C6_Case
    /\ ReqHour = END_HOUR
    /\ _get_doctor_column_index(store, FoundDoctors[1].name) = MaxCols + 1
    /\ ~GridUnreadable(store)
    /\ store.cells[<< (END_HOUR - START_HOUR) + 2, MaxCols + 1 >>] = RedCell
    /\ MsgTpl(result) = "busy" /\ ~result.verified

\* C7 (as claimed, for a request whose specialty, if any, matches): an hour
\* below START_HOUR or above END_HOUR, with the doctor in the roster, gives the
\* out-of-range outcome: available_at_time and verified false, the
\* out-of-range message, and no cell read.
C7_OutOfRangeOutcome ==
    (/\ FullVerdict /\ TimeRequested
     /\ FoundDoctors # << >> /\ SpecialtyOk
     /\ HourParsed /\ (ReqHour < START_HOUR \/ ReqHour > END_HOUR)) =>
        /\ ~result.available_at_time
        /\ ~result.verified
        /\ MsgTpl(result) = "out_of_range"
        /\ \A i \in 1..Len(io) : io[i] \notin {"cell", "color"}

\* C8: whatever the clarifier does (absent, failing, unparseable, any parsed
\* suggestion), verified, doctor_exists, specialty_matches, available_at_time,
\* message and doctor_info of the returned verdict are those the request, the
\* roster and the grid determine.
C8_ClarifierLeavesVerdict ==
    FullVerdict =>
        \A k \in DeterministicKeys :
            k \in DOMAIN result /\ result[k] = VerdictFor(store)[k]

\* C8 witness: the clarifier answered that the doctor exists and is available,
\* for a verdict that says the doctor does not exist.
C8_Witness ==
    /\ FullVerdict
    /\ "llm_clarification" \in DOMAIN result
    /\ result.llm_clarification = JsonOverride
    /\ ~result.doctor_exists /\ ~result.verified

ClarifierCalled == Occurrences(io, "llm") > 0

ClarifierFailed == ~TextTruthy(clarification)

ClarifierUnparseable ==
    TextTruthy(clarification) /\ ~JsonValid(StripFence(clarification))

\* C9 (as claimed): when the clarifier call fails (error, empty response) or
\* its output cannot be parsed, the verdict has no clarification field.
C9_FailureOmitsField ==
    (pc = "done" /\ ClarifierCalled /\ (ClarifierFailed \/ ClarifierUnparseable)) =>
        outcome = "returned" /\ "llm_clarification" \notin DOMAIN result

\* C9 (amended): when the clarifier call fails (error, empty response) the
\* verdict has no clarification field; when its output is not empty and is not
\* JSON, the field holds {recommendation: the text, fences removed}; verify
\* returns in both cases.
C9_FailureOmitsUnparsedIsKept ==
    (pc = "done" /\ ClarifierCalled) =>
        /\ outcome = "returned"
        /\ ClarifierFailed => "llm_clarification" \notin DOMAIN result
        /\ ClarifierUnparseable =>
               /\ "llm_clarification" \in DOMAIN result
               /\ result.llm_clarification =
                      [recommendation |-> StripFence(clarification)]

\* C9 witness: a fenced reply that is not JSON was returned by the clarifier.
C9_Witness ==
    /\ pc = "done" /\ ClarifierCalled
    /\ ClarifierUnparseable
    /\ clarification.fence = "plain"
    /\ "llm_clarification" \in DOMAIN result

\* C10: in one call the clarifier is called at most once, as the last step,
\* after verified and the signals are in the verdict, and only for
\* verified = false; a verified verdict has no clarification and no clarifier
\* call; a failed call is not repeated.
C10_ClarifierOnceAfterVerdict ==
    /\ Occurrences(io, "llm") <= 1
    /\ pc = "clarify" =>
           /\ DeterministicKeys \subseteq DOMAIN result
           /\ ~result.verified
           /\ ~ClarifierCalled
    /\ ClarifierCalled =>
           /\ pc = "done" /\ outcome = "returned"
           /\ io[Len(io)] = "llm"
           /\ ~result.verified
    /\ (outcome = "returned" /\ result.verified) =>
           /\ ~ClarifierCalled
           /\ "llm_clarification" \notin DOMAIN result

\* C10 witness: the one clarifier call failed and the verdict was returned.
C10_Witness ==
    /\ pc = "done" /\ outcome = "returned"
    /\ Occurrences(io, "llm") = 1
    /\ ClarifierFailed
    /\ ~result.verified

\* the doctor_name of the current request is empty once stripped
NameEmpty == ~Truthy(strip(Field(appointment_info, "doctor_name")))

\* C11: a call whose doctor_name is empty or only whitespace is finished by
\* the early return: verified is false, the verdict is the 'doctor not
\* specified' one when a schedule is attached to the corrector, and the call
\* reads neither the roster nor the grid, builds no RAG context and does not
\* call the clarifier.
C11_EmptyNameShortCircuits ==
    (pc # "idle" /\ ~StripRaises(appointment_info) /\ NameEmpty) =>
        /\ pc = "done" /\ outcome = "returned"
        /\ ~result.verified
        /\ doctors_schedule => result = NotSpecifiedResult
        /\ io = << >>
        /\ doctors_context = << >>
        /\ ~ClarifierCalled /\ clarification = EmptyText
        /\ "llm_clarification" \notin DOMAIN result

\* C11 witness: a whitespace-only name with a specialty and a time, against a
\* readable roster and grid and with a clarifier present.
C11_Witness ==
    /\ pc = "done" /\ outcome = "returned"
    /\ Field(appointment_info, "doctor_name") = << " " >>
    /\ Truthy(ReqSpecialty) /\ Truthy(ReqTime)
    /\ doctors_schedule /\ llm /\ store = BaseStore
    /\ result = NotSpecifiedResult

\* a specialty is requested and is not a substring, whatever the case of the
\* letters, of the specialty of the first doctor found
SpecialtyMismatch ==
    /\ FoundDoctors # << >>
    /\ Truthy(ReqSpecialty)
    /\ ~Contains(lower(ReqSpecialty), lower(FoundDoctors[1].specialty))

\* C12: when the requested specialty is not a case-insensitive substring of
\* the matched doctor's specialty, the verdict has specialty_matches = false
\* and verified = false, the mismatch message and the matched doctor, and the
\* call reads neither the header row nor a cell, even when a time is requested.
C12_MismatchStopsBeforeTime ==
    (FullVerdict /\ SpecialtyMismatch) =>
        /\ result.doctor_exists
        /\ ~result.specialty_matches
        /\ ~result.verified
        /\ result.message = Msg("specialty_mismatch",
                                << FoundDoctors[1].name, FoundDoctors[1].specialty,
                                   ReqSpecialty >>)
        /\ result.doctor_info = FoundDoctors[1]
        /\ NoGridRead

\* C12 witness: specialty "ka" is asked of the first match "Iv I" (Te) at 9
\* o'clock, the grid being readable and the 9:00 cell of that doctor green.
C12_Witness ==
    /\ FullVerdict /\ SpecialtyMismatch
    /\ TimeRequested /\ ReqHour = START_HOUR
    /\ store = BaseStore
    /\ result.doctor_info = D1
    /\ ReqSpecialty = << "k", "a" >>

\* C13: every verdict verify builds from check_doctor_availability for a
\* request whose specialty is empty has specialty_matches = true: on the
\* not-found path, and for a matched doctor of any specialty, the empty one
\* included, whatever doctor_exists and available_at_time are.
C13_EmptySpecialtyMatches ==
    (FullVerdict /\ ~Truthy(ReqSpecialty)) => result.specialty_matches

\* C13 witness: the matched doctor has an empty specialty, the request has no
\* specialty and the slot asked for is not free.
C13_Witness ==
    /\ FullVerdict /\ ~Truthy(ReqSpecialty)
    /\ result.doctor_info = D3
    /\ result.specialty_matches
    /\ TimeRequested /\ ~result.available_at_time /\ ~result.verified

\* the message holds the note of line 325 about several doctors of that name
HasAmbiguityNote(r) ==
    \E i \in 1..Len(r.message) : r.message[i].tpl = "multiple"

\* C14 (as claimed): when find_by_name has more than one candidate the first
\* one in roster order is the matched doctor of the specialty and grid checks,
\* the evaluation goes on, and the message of the returned verdict contains
\* the disambiguation note next to the later specialty/time message.
C14_AmbiguityNoteKept ==
    (FullVerdict /\ Len(FoundDoctors) > 1) =>
        /\ result.doctor_exists
        /\ result.doctor_info = FoundDoctors[1]
        /\ HasAmbiguityNote(result)

\* the cell the request addresses
ReqRow == (ReqHour - START_HOUR) + 2
ReqCol == _get_doctor_column_index(store, FoundDoctors[1].name)
ReqCell == store.cells[<< ReqRow, ReqCol >>]

\* the request reaches a cell that is read together with a background color
ColorObtained ==
    /\ C6_Case
    /\ ~CellRaises(store, ReqRow, ReqCol)
    /\ ~store.color_raises
    /\ Truthy(ReqCell.color)

\* C15: when the addressed cell has an obtainable background color, the
\* status of the verdict is the one classified from the color, whatever the
\* text of the cell says: a busy-red cell whose text is 'free' is busy, a cell
\* of a color matching no reference whose text is 'free' is unknown.
C15_ColorBeforeText ==
    ColorObtained =>
        /\ MsgTpl(result) = _get_cell_color_status(ReqCell.color)
        /\ result.available_at_time
               <=> (_get_cell_color_status(ReqCell.color) = "free")
        /\ (ReqCell = RedCell) => MsgTpl(result) = "busy"
        /\ (ReqCell = WhiteFreeCell) => MsgTpl(result) = "unknown"

\* C15 witness: the 9:00 cell of the matched doctor is of no reference color
\* and its text is 'free', which the text vocabulary would decode as free.
C15_Witness ==
    /\ ColorObtained
    /\ ReqRow = 2 /\ ReqCol = 2
    /\ ReqCell = WhiteFreeCell
    /\ TextStatus(ReqCell.value) = "free"
    /\ MsgTpl(result) = "unknown" /\ ~result.available_at_time

\* the reference colors in the order they are tried, with their status
References ==
    << [rgb |-> GREEN_RGB, status |-> "free"],
       [rgb |-> RED_RGB, status |-> "busy"],
       [rgb |-> BLUE_RGB, status |-> "holiday"] >>

\* _get_cell_color_status was called with this color and has returned
Classified == call.fn = "_get_cell_color_status" /\ ret.done

\* every channel of the color (an absent channel is 0) differs from the
\* reference by strictly less than 0.1, in exact decimal arithmetic
WithinTolerance(rgb, ref) ==
    \A ch \in Channels : Abs(Get(rgb, ch, 0) - ref[ch]) < THRESHOLD

\* C16 (as claimed): for every color and every reference R, the color is
\* classified as R's status when every channel differs from R by strictly less
\* than 0.1, and R does not match when some channel differs from R by exactly
\* 0.1 or more.
C16_ToleranceIsStrict ==
    Classified =>
        \A i \in 1..Len(References) :
            /\ WithinTolerance(call.cell_color, References[i].rgb)
                   => ret.value = References[i].status
            /\ ~WithinTolerance(call.cell_color, References[i].rgb)
                   => /\ ~color_similar(PyColor(call.cell_color),
                                        PyColor(References[i].rgb))
                      /\ ret.value # References[i].status

\* the color of the call matches the i-th reference on all three channels
Matches(i) ==
    color_similar(PyColor(call.cell_color), PyColor(References[i].rgb))

\* C17: the status returned is that of the first reference, in the order
\* free, busy, holiday, the color matches on all three channels; it is
\* 'unknown' exactly when the color matches no reference, also for a color
\* whose nearest reference is close by.
C17_FirstMatchInOrder ==
    Classified =>
        /\ \A i \in 1..Len(References) :
               ret.value = References[i].status
                   <=> (Matches(i) /\ \A j \in 1..(i - 1) : ~Matches(j))
        /\ ret.value = "unknown" <=> \A i \in 1..Len(References) : ~Matches(i)
        /\ call.cell_color = Grey_RGB => ret.value = "unknown"

\* C17 witness: a color within the tolerance of the free and of the busy
\* reference was classified free.
C17_Witness ==
    /\ Classified
    /\ call.cell_color = GreenRed_RGB
    /\ Matches(1) /\ Matches(2) /\ ~Matches(3)
    /\ ret.value = "free"

\* _get_doctor_column_index has returned, the header row being readable
ColumnReturned ==
    /\ call.fn = "_get_doctor_column_index" /\ ret.done
    /\ call.s.schedule_worksheet /\ ~call.s.header_raises

\* the header of column c contains the name or is contained in it
Qualifies(c) ==
    LET header == lower(call.s.header[c])
        name == strip(lower(call.doctor_name))
    IN  Truthy(header) /\ (Contains(name, header) \/ Contains(header, name))

\* the header of column c corresponds to a doctor the roster has for the name
Corresponds(c) ==
    LET header == lower(call.s.header[c])
        found_doctors == find_doctor_by_name(call.s, call.doctor_name)
    IN  \E i \in 1..Len(found_doctors) :
            \/ Contains(lower(found_doctors[i].name), header)
            \/ Contains(header, lower(found_doctors[i].name))

\* C18 (as claimed): the column returned is the first one from column 2 whose
\* header contains the name or is contained in it, a column whose header
\* corresponds to a roster match being preferred to an earlier bare substring
\* hit; no column is returned only when no header qualifies.
C18_ColumnBothDirections ==
    ColumnReturned =>
        LET Hits == { c \in 2..Len(call.s.header) : Qualifies(c) }
            Preferred == { c \in Hits : Corresponds(c) }
        IN  /\ (ret.value = NoneInt) <=> (Hits = {})
            /\ Hits # {} =>
                   ret.value = IF Preferred # {} THEN SetMin(Preferred)
                               ELSE SetMin(Hits)

\* one of the two searches of the roster has returned
FindReturned ==
    /\ call.fn \in {"find_doctor_by_name", "find_doctors_by_specialty"}
    /\ ret.done

\* the query of the search, and the field of a roster entry it is compared with
Query ==
    IF call.fn = "find_doctor_by_name" THEN call.doctor_name ELSE call.specialty

FieldOf(doctor) ==
    IF call.fn = "find_doctor_by_name" THEN doctor.name ELSE doctor.specialty

\* the elements of seq at the indices I, in increasing order of index
Pick(seq, I) ==
    [k \in 1..Cardinality(I) |->
        seq[CHOOSE i \in I : Cardinality({ j \in I : j < i }) = k - 1]]

\* the roster entries whose field contains q or is contained in q, the case of
\* the letters apart, in roster order, each as often as the roster has it
Containing(q) ==
    LET doctors == get_all_doctors(call.s)
    IN  Pick(doctors,
             { i \in 1..Len(doctors) :
                 \/ Contains(lower(q), lower(FieldOf(doctors[i])))
                 \/ Contains(lower(FieldOf(doctors[i])), lower(q)) })

\* the example of the roster [("Ivanov I.I.", "Terapevt")]
IvanovExample ==
    (/\ call.fn = "find_doctor_by_name"
     /\ call.s.roster = << D_Ivanov >> /\ ~RosterUnreadable(call.s)) =>
        /\ call.doctor_name = << "I", "v", "a", "n", "o", "v" >>
               => ret.value = << D_Ivanov >>
        /\ call.doctor_name = << "P", "e", "t", "r", "o", "v" >>
               => ret.value = << >>

\* C19 (as claimed): find_by_name(q) and find_by_specialty(q) return exactly
\* the roster entries whose name (specialty) contains q or is contained in q,
\* compared case-insensitively, in roster order and with duplicates; with the
\* roster [("Ivanov I.I.", "Terapevt")], "Ivanov" finds the entry and "Petrov"
\* finds nothing.
C19_FindContaining ==
    FindReturned => (ret.value = Containing(Query) /\ IvanovExample)

\* C19 (amended): the same with q taken without its leading and trailing
\* whitespace, the roster entries being the rows of the sheet that have a name
\* (none when the sheet cannot be read).
C19_FindContainingStripped ==
    FindReturned => (ret.value = Containing(strip(Query)) /\ IvanovExample)

\* C19 witness: "Ivanov" finds both rows of a roster that holds
\* ("Ivanov I.I.", "Terapevt") twice.
C19_Witness ==
    /\ FindReturned
    /\ call.fn = "find_doctor_by_name"
    /\ call.doctor_name = << "I", "v", "a", "n", "o", "v" >>
    /\ call.s.roster = << D_Ivanov, D_Ivanov >>
    /\ ret.value = << D_Ivanov, D_Ivanov >>

\* the cell the call reads
CallCell == call.s.cells[<< call.row_index, call.col_index >>]

\* the status of a cell was decided without a background color: the cell has
\* none, or the request for it raised
NoColorObtained ==
    /\ call.fn = "cell_status" /\ ret.done
    /\ call.s.color_raises \/ ~Truthy(CallCell.color)

\* the fixed vocabulary of the text fallback
Vocabulary ==
    << [words |-> { << >>, W_svobodno, W_free }, status |-> "free"],
       [words |-> { W_zanyato, W_busy, W_zanyat }, status |-> "busy"],
       [words |-> { W_vyhodnoy, W_holiday, W_vyh }, status |-> "holiday"] >>

\* C20: when no background color is obtainable the status is decoded from the
\* text of the cell, the case of its letters apart: the empty text,
\* 'svobodno' and 'free' give free; 'zanyato', 'busy' and 'zanyat' give busy;
\* 'vyhodnoy', 'holiday' and 'vyh' give holiday; any other text gives unknown.
C20_TextVocabulary ==
    NoColorObtained =>
        LET text == lower(CallCell.value)
        IN  /\ \A i \in 1..Len(Vocabulary) :
                   text \in Vocabulary[i].words => ret.value = Vocabulary[i].status
            /\ (\A i \in 1..Len(Vocabulary) : text \notin Vocabulary[i].words)
                   => ret.value = "unknown"

\* C20 witness: the cell is filled red, the request for its color raised, and
\* its text 'ZANYAT' was decoded as busy.
C20_Witness ==
    /\ NoColorObtained
    /\ call.s.color_raises /\ CallCell.color = COLOR_RED
    /\ CallCell.value = << "Z", "A", "N", "Y", "A", "T" >>
    /\ ret.value = "busy"

\* C21 (as claimed): for every request (fields present, empty, absent or
\* null) and every roster and grid, a call of verify on a corrector that has a
\* schedule ends by returning a verdict that has verified, doctor_exists,
\* specialty_matches, available_at_time, message and doctor_info; it does not
\* raise.
C21_AlwaysFullVerdict ==
    (pc = "done" /\ doctors_schedule) =>
        /\ outcome = "returned"
        /\ DeterministicKeys \subseteq DOMAIN result

\* the templates of the messages of a verdict (llm_corrector.py line 392,
\* google_sheets.py lines 316, 333, 344, 349, 423-429, 433, 436)
Templates ==
    {"doctor_not_specified", "not_found", "specialty_mismatch", "out_of_range",
     "not_in_schedule", "free", "busy", "holiday", "unknown", "schedule_error",
     "found"}

\* the schedule sheet, its header row or the addressed cell cannot be read
GridReadFails(s, row) ==
    \/ ~s.schedule_worksheet
    \/ s.header_raises
    \/ /\ _get_doctor_column_index(s, FoundDoctors[1].name) # NoneInt
       /\ CellRaises(s, row, _get_doctor_column_index(s, FoundDoctors[1].name))

\* the cause the current call ends for, named by the template that stands for it
Cause ==
    IF NameEmpty THEN "doctor_not_specified"
    ELSE IF FoundDoctors = << >> THEN "not_found"
    ELSE IF SpecialtyMismatch THEN "specialty_mismatch"
    ELSE IF ~Truthy(ReqTime) THEN "found"
    ELSE IF _get_time_row_index(ReqTime) = NoneInt THEN "out_of_range"
    ELSE IF GridReadFails(store, _get_time_row_index(ReqTime)) THEN "schedule_error"
    ELSE IF ReqCol = NoneInt THEN "not_in_schedule"
    ELSE CellStatus(store, _get_time_row_index(ReqTime), ReqCol)

\* C22 (as claimed): every verdict carries exactly one message, of a template
\* of the fixed set, and the template is the one of the cause the call ended
\* for: doctor not specified, not in the roster, specialty mismatch, time out
\* of range, grid read error, doctor not in the grid, cell free, busy, holiday
\* or unknown, found with no time requested.
C22_TemplateIdentifiesCause ==
    (outcome = "returned" /\ doctors_schedule) =>
        /\ Len(result.message) = 1
        /\ MsgTpl(result) \in Templates
        /\ MsgTpl(result) = Cause

\* get_context_for_rag has returned
RagReturned == call.fn = "get_context_for_rag" /\ ret.done

\* the doctors the filter of the call selects, in roster order
MatchSet ==
    IF Truthy(call.doctor_name) THEN find_doctor_by_name(call.s, call.doctor_name)
    ELSE IF Truthy(call.specialty)
    THEN find_doctors_by_specialty(call.s, call.specialty)
    ELSE get_all_doctors(call.s)

\* the doctors a context lists, in the order of its lines
Listed(context) ==
    LET lines == SelectSeq(context, LAMBDA m : m.tpl = "rag_item")
    IN  [i \in 1..Len(lines) |->
            [name |-> lines[i].args[1], specialty |-> lines[i].args[2]]]

\* C23: the context lists at most 10 doctors, namely the first 10 (or all, if
\* fewer) of the match-set of the filter, in roster order; the string is the
\* header, one line per listed doctor and the closing line, so it depends on
\* the roster and the filter only.
C23_FirstTenInOrder ==
    (RagReturned /\ call.s.doctors_worksheet /\ MatchSet # << >>) =>
        LET listed == Listed(ret.value)
        IN  /\ Len(listed) <= RAG_LIMIT
            /\ Len(listed) = Min(RAG_LIMIT, Len(MatchSet))
            /\ \A i \in 1..Len(listed) : listed[i] = MatchSet[i]
            /\ Len(ret.value) = Len(listed) + 2
            /\ ret.value[1].tpl = "rag_header"
            /\ ret.value[Len(ret.value)].tpl = "rag_end"
            /\ \A i \in 1..Len(listed) : ret.value[i + 1].tpl = "rag_item"

\* C23 witness: of a roster of 14 doctors 12 have the specialty asked for; the
\* first 10 of them are listed, the seventh doctor of the roster is skipped
\* and the eleventh is the last one listed.
C23_Witness ==
    /\ RagReturned
    /\ Len(call.s.roster) = 14 /\ Truthy(call.specialty) /\ ~Truthy(call.doctor_name)
    /\ Len(MatchSet) = 12
    /\ Len(Listed(ret.value)) = 10
    /\ Listed(ret.value)[7] = LongDoctor(8)
    /\ Listed(ret.value)[10] = LongDoctor(11)

\* a full listing of doctors as long as the example "Ivanov I.I.", "Terapevt"
FullExampleListing ==
    Format(get_context_for_rag(
               [BaseStore EXCEPT !.roster = [i \in 1..RAG_LIMIT |-> D_Ivanov]],
               << >>, << >>))

\* the string ends with an ellipsis
EndsWithEllipsis(text) ==
    Len(text) >= 3 /\ SubSeq(text, Len(text) - 2, Len(text)) = << ".", ".", "." >>

\* the listing of the first ten doctors of the match-set, not cut
UncutListing ==
    Format(Msg("rag_header", << >>)
           \o RagLines(SubSeq(MatchSet, 1, Min(RAG_LIMIT, Len(MatchSet))))
           \o Msg("rag_end", << >>))

\* C24 (as claimed): the length of the string returned does not grow with the
\* lengths of the names and specialties of the roster: it is never longer than
\* a full listing of ten doctors of the size of the example, and a listing
\* that would be longer is cut and ends with an ellipsis.
C24_BoundedWithEllipsis ==
    (RagReturned /\ MatchSet # << >>) =>
        /\ Len(Format(ret.value)) <= Len(FullExampleListing)
        /\ Len(UncutListing) > Len(FullExampleListing)
               => EndsWithEllipsis(Format(ret.value))

\* a is the beginning of b (or the whole of it)
Prefix(a, b) == Len(a) <= Len(b) /\ SubSeq(b, 1, Len(a)) = a

\* the 'not found' sentinel for the filter of the call
NotFoundSentinel ==
    T_not_found_name \o FormatFilter(call.doctor_name) \o T_not_found_specialty
    \o FormatFilter(call.specialty) \o T_not_found_end

\* the 'not found' sentinels of all filters, and the 'unavailable' one
Sentinels ==
    { T_not_found_name \o FormatFilter(f.doctor_name) \o T_not_found_specialty
      \o FormatFilter(f.specialty) \o T_not_found_end : f \in RagFilters }
    \cup { T_db_unavailable }

\* C25 (as claimed): when the match-set of the filter is empty (an empty
\* roster with no filter included) the string returned is the 'not found'
\* sentinel; when it is not empty the string is a listing, of which no sentinel
\* is a prefix or the whole.
C25_SentinelIffEmpty ==
    RagReturned =>
        /\ MatchSet = << >> => Format(ret.value) = NotFoundSentinel
        /\ MatchSet # << >> =>
               /\ Prefix(T_rag_header, Format(ret.value))
               /\ \A sentinel \in Sentinels : ~Prefix(sentinel, Format(ret.value))

\* C25 (amended): the same when the roster sheet is loaded; when it is not,
\* the string returned is the 'database unavailable' sentinel, whatever the
\* filter, and that one too is no prefix of a listing.
C25_SentinelIffEmptyLoaded ==
    RagReturned =>
        /\ (call.s.doctors_worksheet /\ MatchSet = << >>)
               => Format(ret.value) = NotFoundSentinel
        /\ ~call.s.doctors_worksheet => Format(ret.value) = T_db_unavailable
        /\ MatchSet # << >> =>
               /\ Prefix(T_rag_header, Format(ret.value))
               /\ \A sentinel \in Sentinels : ~Prefix(sentinel, Format(ret.value))

\* C25 witness: the roster sheet is loaded and has no doctor, no filter is
\* given, and the 'not found' sentinel is returned.
C25_Witness ==
    /\ RagReturned
    /\ call.s.doctors_worksheet /\ ~call.s.roster_raises /\ call.s.roster = << >>
    /\ ~Truthy(call.doctor_name) /\ ~Truthy(call.specialty)
    /\ Format(ret.value) = NotFoundSentinel
    /\ Len(Format(ret.value)) = Len(T_not_found_name) + Len(T_not_found_specialty)
                                + Len(T_not_found_end) + 8

\* the verdict the call of caller p gets when it runs alone on the sheets
VerdictAlone(p) ==
    LET info == threads[p].appointment_info
    IN  IF ~Truthy(doctor_name_of(info)) THEN NotSpecifiedResult
        ELSE Aggregate(
                 check_doctor_availability(store, doctor_name_of(info),
                     specialty_of(info), appointment_time_of(info)),
                 get_context_for_rag(store, doctor_name_of(info),
                                     specialty_of(info)))

\* caller p has its verdict and the sheets are as they were during the call
FreshlyDone(p) == threads[p].pc = "done" /\ ~threads[p].stale

\* a step of a call, as opposed to an edit of the sheets
CallStep ==
    \/ \E p \in Callers, info \in ServiceRequests : ThreadCall(p, info)
    \/ \E p \in Callers : ThreadRag(p)
    \/ \E p \in Callers : ThreadCheck(p)
    \/ \E p \in Callers, reply \in ServiceReplies : ThreadClarify(p, reply)

\* C26: calls of verify that run at the same time on unchanged sheets do not
\* interfere: under every interleaving each call returns the verdict it
\* returns when it runs alone (the clarifier's advice apart), a step of a call
\* changes neither the sheets nor the corrector, and it changes the locals of
\* no other call.
C26_ConcurrentCallsIndependent ==
    /\ [](\A p \in Callers :
              FreshlyDone(p) =>
                  /\ threads[p].outcome = "returned"
                  /\ Deterministic(threads[p].result) = VerdictAlone(p))
    /\ [][CallStep =>
              /\ store' = store /\ llm' = llm /\ doctors_schedule' = doctors_schedule
              /\ Cardinality({ p \in Callers : threads'[p] # threads[p] }) <= 1]_vars

\* C26 witness: caller 1 got the verdict for "Iv I" at 9 while caller 2, with
\* another request, was between its RAG step and its check.
C26_Witness ==
    /\ FreshlyDone(1)
    /\ threads[2].pc = "check"
    /\ threads[1].appointment_info # threads[2].appointment_info
    /\ threads[1].doctors_context # threads[2].doctors_context
    /\ threads[1].result.verified

\* the request of caller p, and the cell it addresses on the sheets as they are
NameOf(p) == doctor_name_of(threads[p].appointment_info)
TimeOf(p) == appointment_time_of(threads[p].appointment_info)
FoundNow(p) == find_doctor_by_name(store, NameOf(p))
RowNow(p) == _get_time_row_index(TimeOf(p))
ColNow(p) == _get_doctor_column_index(store, FoundNow(p)[1].name)

\* the call of p got as far as the cell of the doctor at the hour asked for
ReachedCell(p) ==
    /\ "available_at_time" \in DOMAIN threads[p].result
    /\ threads[p].result.doctor_exists /\ threads[p].result.specialty_matches
    /\ Truthy(TimeOf(p))
    /\ RowNow(p) # NoneInt /\ ColNow(p) # NoneInt

\* C27: nothing of the roster or the grid is kept from one call to the next:
\* a call that gets past the name check reads the roster, a call that reaches
\* the time check reads the header row and the addressed cell, and its verdict
\* is about the sheets as they are now: after a slot went from free to busy,
\* or the doctor left the roster, the verdict for the same request is not the
\* positive one handed out before the edit.
C27_EveryCallRereads ==
    \A p \in Callers :
        (FreshlyDone(p) /\ "doctor_exists" \in DOMAIN threads[p].result) =>
            /\ Occurrences(threads[p].io, "roster") >= 1
            /\ threads[p].result.doctor_exists = (FoundNow(p) # << >>)
            /\ ReachedCell(p) =>
                   /\ Occurrences(threads[p].io, "header") = 1
                   /\ Occurrences(threads[p].io, "cell") = 1
                   /\ threads[p].result.available_at_time
                          = (StatusAt(store, RowNow(p), ColNow(p)) = "free")
            /\ \A q \in Callers :
                   (/\ threads[q].pc = "done" /\ threads[q].stale
                    /\ threads[q].appointment_info = threads[p].appointment_info
                    /\ threads[q].result.verified
                    /\ \/ FoundNow(p) = << >>
                       \/ ReachedCell(p)
                          /\ StatusAt(store, RowNow(p), ColNow(p)) = "busy")
                       => ~threads[p].result.verified

\* C27 witness: caller 1 was told that "Iv I" is free at 9; the slot was then
\* colored busy and caller 2, with the same request, is told so.
C27_Witness ==
    /\ store = BusySheet
    /\ threads[1].pc = "done" /\ threads[1].stale /\ threads[1].result.verified
    /\ FreshlyDone(2)
    /\ threads[2].appointment_info = threads[1].appointment_info
    /\ ReachedCell(2)
    /\ ~threads[2].result.available_at_time /\ ~threads[2].result.verified
    /\ MsgTpl(threads[2].result) = "busy"

\* C28 (as claimed): on a corrector with use_cache and an LLM, the text
\* produced for a transcription is in the cache from then on, and a later
\* call with the same transcription returns that text and does not call the
\* LLM.
C28_CorrectionIsCached ==
    (llm /\ cache # NoneVal) =>
        /\ \A i \in 1..Len(corrections) :
               cache_key(corrections[i].transcription) \in DOMAIN cache
        /\ \A i, j \in 1..Len(corrections) :
               (i < j /\ corrections[j].transcription = corrections[i].transcription)
                   => /\ corrections[j].returned = corrections[i].returned
                      /\ ~corrections[j].asked

\* check_doctor_availability has returned
AvailabilityReturned == call.fn = "check_doctor_availability" /\ ret.done

\* C29: in every result of check_doctor_availability doctor_info is an entry
\* of the roster exactly when doctor_exists is true: it is None when no doctor
\* is found, and the first doctor found on every other path (specialty
\* mismatch, time out of range, doctor not in the grid, grid read error, cell
\* read, no time asked).
C29_DoctorInfoIffExists ==
    AvailabilityReturned =>
        LET r == ret.value
            found == find_doctor_by_name(call.s, call.doctor_name)
        IN  /\ (r.doctor_info # NoneVal) <=> r.doctor_exists
            /\ r.doctor_exists <=> (found # << >>)
            /\ r.doctor_exists =>
                   /\ r.doctor_info = found[1]
                   /\ \E i \in 1..Len(call.s.roster) : call.s.roster[i] = r.doctor_info
                   /\ MsgTpl(r) \in Templates \ {"not_found", "doctor_not_specified"}
            /\ ~r.doctor_exists => MsgTpl(r) = "not_found"

\* C29 witness: the read of the cell failed and the result still names the
\* first doctor found.
C29_Witness ==
    /\ AvailabilityReturned
    /\ MsgTpl(ret.value) = "schedule_error"
    /\ ret.value.doctor_exists /\ ~ret.value.available_at_time
    /\ ret.value.doctor_info = D1
    /\ Len(find_doctor_by_name(call.s, call.doctor_name)) > 1

\* the requested time has a ':' in it
HasMinutes == \E i \in 1..Len(ReqTime) : ReqTime[i] = ":"

\* C30 (as claimed, for a named doctor in the roster and a specialty, if any,
\* that matches): a requested time whose part before ':' is not an integer gets no
\* row from _get_time_row_index and verify returns, without raising, the
\* out-of-range message with available_at_time and verified false, as for an
\* hour outside [START_HOUR, END_HOUR]; for 'HH:MM' the row is that of hour HH.
C30_UnparsedTimeIsOutOfRange ==
    (/\ TimeRequested /\ outcome # "none"
     /\ Truthy(ReqName) /\ FoundDoctors # << >> /\ SpecialtyOk) =>
        /\ ~HourParsed =>
               /\ _get_time_row_index(ReqTime) = NoneInt
               /\ FullVerdict
               /\ MsgTpl(result) = "out_of_range"
               /\ ~result.available_at_time
               /\ ~result.verified
        /\ (HourParsed /\ HasMinutes) =>
               _get_time_row_index(ReqTime) = _get_time_row_index(BeforeColon(ReqTime))

====
